---- MODULE Spec2Model ----
(***************************************************************************)
(* Suffix array (SA-IS), LCP array and suffix tree (Ukkonen) of the crate   *)
(* suff_collections, as operators over byte sequences, and the objects      *)
(* built from them as state machines.                                       *)
(*                                                                          *)
(* A Vec or slice of the source is a TLA+ sequence; the source's zero-based *)
(* index i is element i + 1 of the sequence (At, Put).                      *)
(***************************************************************************)
EXTENDS Integers, Sequences, FiniteSets, TLC

\* ------------------------------------------------------------------------
\* Bounds of the model
\* ------------------------------------------------------------------------

\* largest byte value of the texts and patterns; byte 0 is the sentinel
MaxByte == 2

\* longest text given to a constructor
MaxLen == 4

\* longest pattern given to a query
MaxPat == 2

MaxTreeLen == 5

MaxAdds == 3

GuardSlack == 2

\* longest of the short texts given to new_stack run step by step
MaxStackLen == 7

\* most positions of a marker vector run on its own
MaxMarks == 9

\* most positions of a marker vector set at a time
MaxSet == 3

\* ------------------------------------------------------------------------
\* Slices
\* ------------------------------------------------------------------------

At(v, i) == v[i + 1]

Put(v, i, x) == [v EXCEPT ![i + 1] = x]

\* let v = value; body: written Let([v \in {value} |-> body]), the value of
\* the body for the one v; the value is computed once, before the body uses it
Let(f) == CHOOSE r \in {g[CHOOSE x \in DOMAIN g : TRUE] : g \in {f}} : TRUE

\* the Vec of F(1), ..., F(n)
Collect(n, F(_)) == SubSeq([k \in 1..n |-> F(k)], 1, n)

Fill(n, x) == Collect(n, LAMBDA k : x)

\* v[..n]
Prefix(v, n) == SubSeq(v, 1, n)

\* the slice `full` after a write through the prefix view `pre` of it
WithPrefix(full, pre) ==
    Collect(Len(full), LAMBDA k : IF k <= Len(pre) THEN pre[k] ELSE full[k])

Max2(a, b) == IF a >= b THEN a ELSE b

Min2(a, b) == IF a <= b THEN a ELSE b

\* for i in lo..hi-1 { st = Step(st, i) }, evaluated by halving the range
RECURSIVE ForRange(_, _, _, _)
ForRange(Step(_, _), st, lo_i, hi_i) ==
    IF hi_i <= lo_i THEN st
    ELSE IF hi_i = lo_i + 1 THEN Let([s \in {st} |-> Step(s, lo_i)])
    ELSE Let([mid \in {(lo_i + hi_i) \div 2} |->
         Let([half \in {ForRange(Step, st, lo_i, mid)} |->
             ForRange(Step, half, mid, hi_i)])])

\* count_eq on the slices a[i..] and b[j..]: the number of leading elements
\* on which they agree, counted from the first `acc` elements on, which are
\* not compared
count_eq(a, i, b, j, acc) ==
    Let([room \in {Min2(Len(a) - i, Len(b) - j)} |->
        IF acc >= room THEN acc
        ELSE CHOOSE k \in acc..room :
                /\ k = room \/ At(a, i + k) # At(b, j + k)
                /\ \A m \in acc..(k - 1) : At(a, i + m) = At(b, j + m)])

\* Ordering of the slices a[i..] and b[j..]: -1, 0 or 1
slice_cmp(a, i, b, j) ==
    Let([k \in {count_eq(a, i, b, j, 0)} |->
        IF i + k >= Len(a) THEN (IF j + k >= Len(b) THEN 0 ELSE -1)
        ELSE IF j + k >= Len(b) THEN 1
        ELSE IF At(a, i + k) < At(b, j + k) THEN -1 ELSE 1])

\* ------------------------------------------------------------------------
\* Marker vectors: one byte per position ("byte") or eight positions per
\* byte ("bit")
\* ------------------------------------------------------------------------

LOG2 == 3

MASK == 7

hi(n) == n \div (2 ^ LOG2)

lo(n) == n % (MASK + 1)

Byte_vec(n) == Fill(hi(n) + (IF lo(n) = 0 THEN 0 ELSE 1), 0)

\* bit k of a byte
Byte_get_unchecked(byte, k) == (byte \div (2 ^ k)) % 2

ret_bytes(layout, len) == IF layout = "byte" THEN Fill(len, 0) ELSE Byte_vec(len)

get_unchecked(layout, raw, idx) ==
    IF layout = "byte" THEN At(raw, idx)
    ELSE Byte_get_unchecked(At(raw, hi(idx)), lo(idx))

\* set_unchecked whose packed flavour adds the bit instead of or-ing it
set_unchecked_add(layout, raw, idx) ==
    IF layout = "byte" THEN Put(raw, idx, 1)
    ELSE Put(raw, hi(idx), (At(raw, hi(idx)) + 2 ^ lo(idx)) % 256)

set_unchecked(layout, raw, idx) ==
    IF layout = "byte" THEN Put(raw, idx, 1)
    ELSE LET b == At(raw, hi(idx))
         IN  Put(raw, hi(idx),
                 IF Byte_get_unchecked(b, lo(idx)) = 1 THEN b ELSE b + 2 ^ lo(idx))

\* range_to_mut that hands out the whole vector
range_to_mut_whole(layout, raw, to) == raw

\* the bytes of the view of the first `to` positions
range_to_mut(layout, raw, to) ==
    IF layout = "byte" THEN Prefix(raw, to)
    ELSE Prefix(raw, hi(to) + (IF lo(to) = 0 THEN 0 ELSE 1))

bit_clear(raw) == Fill(Len(raw), 0)

\* ------------------------------------------------------------------------
\* SA-IS
\* ------------------------------------------------------------------------

TSuff_S == 0

TSuff_L == 1

DICT_SIZE == 256

LEN_NAIVE_SORT == 50

\* calc_type without the rule for equal neighbours
calc_type_no_tie(layout, s_idx, t) ==
    LET last == Len(s_idx) - 2
        step(t0, k) ==
            IF At(s_idx, last - k) > At(s_idx, last - k + 1)
            THEN set_unchecked(layout, t0, last - k)
            ELSE t0
    IN  ForRange(step, t, 0, last + 1)

calc_type(layout, s_idx, t) ==
    LET last == Len(s_idx) - 2
        step(t0, k) ==
            LET i == last - k
                a == At(s_idx, i)
                b == At(s_idx, i + 1)
            IN  IF a > b \/ (a = b /\ get_unchecked(layout, t0, i + 1) = TSuff_L)
                THEN set_unchecked(layout, t0, i)
                ELSE t0
    IN  ForRange(step, t, 0, last + 1)

\* the positions x + 1 with x in lo_x..hi_x and Test(x), in increasing order
lms_scan(Test(_), lo_x, hi_x, res) ==
    ForRange(LAMBDA r, x : IF Test(x) THEN Append(r, x + 1) ELSE r,
             res, lo_x, hi_x + 1)

calc_lms_byte(t, len) ==
    lms_scan(LAMBDA x : At(t, x) = TSuff_L /\ At(t, x + 1) = TSuff_S,
             0, Len(t) - 2, <<>>)

\* windows(2) over the packed bytes, each window unfolding the eight bits of
\* its first byte; the positions after the last window are read bit by bit
calc_lms_bit(t, len) ==
    LET windows == Len(t) - 1
        in_window(x) ==
            LET w == hi(x)
                bit_idx == lo(x)
            IN  IF bit_idx < 7
                THEN /\ Byte_get_unchecked(At(t, w), bit_idx) = TSuff_L
                     /\ Byte_get_unchecked(At(t, w), bit_idx + 1) = TSuff_S
                ELSE /\ Byte_get_unchecked(At(t, w), 7) = TSuff_L
                     /\ Byte_get_unchecked(At(t, w + 1), 0) = TSuff_S
    IN  Let([unfolded \in {lms_scan(in_window, 0, 8 * windows - 1, <<>>)} |->
            lms_scan(LAMBDA x : /\ get_unchecked("bit", t, x) = TSuff_L
                                /\ get_unchecked("bit", t, x + 1) = TSuff_S,
                     8 * windows, len - 2, unfolded)])

calc_lms(layout, t, len) ==
    IF layout = "byte" THEN calc_lms_byte(t, len) ELSE calc_lms_bit(t, len)

\* sort: the positions of `sort` ordered by their suffixes of s_idx; the
\* suffixes are pairwise different, so the sorted order is unique
naive_sort(sort, s_idx) ==
    LET rank(a) == Cardinality({k \in 1..Len(sort) :
                                  slice_cmp(s_idx, sort[k], s_idx, a) < 0})
    IN  Let([ranks \in {Collect(Len(sort), LAMBDA k : rank(sort[k]))} |->
            Collect(Len(sort), LAMBDA r :
                sort[CHOOSE k \in 1..Len(sort) : ranks[k] = r - 1])])

create_bucket_dict(s_idx, offset_dict) ==
    LET count(od, i) ==
            LET x == At(s_idx, i)
                e == At(od, x)
            IN  Put(od, x, <<e[1] + 1, e[2]>>)
        fold(st, k) ==
            LET cnt == At(st.od, k)[1]
            IN  [od |-> Put(st.od, k, <<st.acc, st.acc + cnt>>), acc |-> st.acc + cnt]
    IN  Let([counted \in {ForRange(count, offset_dict, 0, Len(s_idx))} |->
            ForRange(fold, [od |-> counted, acc |-> 0], 0, Len(counted)).od])

\* The scratch of a construction: sc.offset_dict, sc.tmp_end_s, sc.sa and
\* sc.sa_init (the raw bytes of the marker vector)

add_lms_to_end(layout, s_idx, sa_lms, sc) ==
    LET last == Len(sa_lms) - 1
        step(sc0, k) ==
            LET x == At(sa_lms, last - k)
                c == At(s_idx, x)
                ptr_end_s == At(sc0.tmp_end_s, c) - 1
            IN  [sc0 EXCEPT !.tmp_end_s = Put(sc0.tmp_end_s, c, ptr_end_s),
                            !.sa = Put(sc0.sa, ptr_end_s, x),
                            !.sa_init = set_unchecked(layout, sc0.sa_init, ptr_end_s)]
    IN  Let([copied \in {Collect(Len(sc.tmp_end_s), LAMBDA k :
                IF k <= Len(sc.offset_dict) THEN sc.offset_dict[k][2]
                ELSE sc.tmp_end_s[k])} |->
                ForRange(step, [sc EXCEPT !.tmp_end_s = copied], 0, last + 1)])

add_L_to_start(layout, s_idx, t, sc) ==
    LET step(sc0, x) ==
            LET idx0 == At(sc0.sa, x)
                idx == idx0 - 1
            IN  IF idx0 > 0 /\ get_unchecked(layout, sc0.sa_init, x) = 1
                   /\ get_unchecked(layout, t, idx) = TSuff_L
                THEN LET c == At(s_idx, idx)
                         ptr_offset == At(sc0.offset_dict, c)
                     IN  [sc0 EXCEPT
                            !.sa = Put(sc0.sa, ptr_offset[1], idx),
                            !.sa_init = set_unchecked(layout, sc0.sa_init, ptr_offset[1]),
                            !.offset_dict = Put(sc0.offset_dict, c,
                                                <<ptr_offset[1] + 1, ptr_offset[2]>>)]
                ELSE sc0
    IN  ForRange(step, sc, 0, Len(sc.sa))

add_S_to_end(layout, s_idx, t, sc) ==
    LET last == Len(sc.sa) - 1
        step(sc0, k) ==
            LET x == last - k
                idx0 == At(sc0.sa, x)
                idx == idx0 - 1
            IN  IF idx0 > 0 /\ get_unchecked(layout, sc0.sa_init, x) = 1
                   /\ get_unchecked(layout, t, idx) = TSuff_S
                THEN LET c == At(s_idx, idx)
                         ptr_offset == At(sc0.offset_dict, c)
                         end == ptr_offset[2] - 1
                     IN  [sc0 EXCEPT
                            !.offset_dict = Put(sc0.offset_dict, c, <<ptr_offset[1], end>>),
                            !.sa = Put(sc0.sa, end, idx),
                            !.sa_init = set_unchecked(layout, sc0.sa_init, end)]
                ELSE sc0
    IN  ForRange(step, sc, 0, last + 1)

induced_sort(layout, s_idx, sa_lms, t, sc) ==
    Let([dict \in {create_bucket_dict(s_idx, sc.offset_dict)} |->
    Let([sc1 \in {[sc EXCEPT !.offset_dict = dict]} |->
    Let([sc2 \in {add_lms_to_end(layout, s_idx, sa_lms, sc1)} |->
    Let([sc3 \in {add_L_to_start(layout, s_idx, t, sc2)} |->
        add_S_to_end(layout, s_idx, t, sc3)])])])])

RECURSIVE sublms_loop(_, _, _, _, _, _)
sublms_loop(layout, s_idx, t, x, prev, i) ==
    IF \/ At(s_idx, x + i) # At(s_idx, prev + i)
       \/ get_unchecked(layout, t, x + i) # get_unchecked(layout, t, prev + i)
    THEN FALSE
    ELSE IF /\ i # 0
            /\ \/ /\ get_unchecked(layout, t, x + i - 1) = TSuff_L
                  /\ get_unchecked(layout, t, x + i) = TSuff_S
               \/ /\ get_unchecked(layout, t, prev + i - 1) = TSuff_L
                  /\ get_unchecked(layout, t, prev + i) = TSuff_S
    THEN TRUE
    ELSE sublms_loop(layout, s_idx, t, x, prev, i + 1)

\* sublms_is_eq that compares the first symbols only
sublms_is_eq_first(layout, s_idx, t, x, prev) == At(s_idx, x) = At(s_idx, prev)

sublms_is_eq(layout, s_idx, t, x, prev) == sublms_loop(layout, s_idx, t, x, prev, 0)

\* create_new_str writes the names into `alphabet` (the caller's tmp_end_s)
\* and returns the reduced string
create_new_str(layout, s_idx, alphabet, sort_sublms, t, idx_lms) ==
    LET last == Len(s_idx) - 1
        step(st, k) ==
            LET x == At(sort_sublms, k)
            IN  IF /\ x > 0
                   /\ get_unchecked(layout, t, x) = TSuff_S
                   /\ get_unchecked(layout, t, x - 1) = TSuff_L
                THEN [alphabet |->
                          Put(st.alphabet, x,
                              IF sublms_is_eq(layout, s_idx, t, x, st.prev)
                              THEN At(st.alphabet, st.prev)
                              ELSE At(st.alphabet, st.prev) + 1),
                      prev |-> x]
                ELSE st
    IN  Let([named \in {ForRange(step, [alphabet |-> Put(alphabet, last, 0), prev |-> last],
                     1, Len(sort_sublms)).alphabet} |->
                [alphabet |-> named,
                 new_s_idx |-> Collect(Len(idx_lms), LAMBDA k : At(named, idx_lms[k]))]])

pack_lms(idx_lms, s_idx, offset_dict) ==
    LET step(od, i) ==
            LET index == At(s_idx, At(idx_lms, i))
            IN  Put(od, index, <<At(od, index)[1] + 1, i>>)
    IN  ForRange(step, offset_dict, 0, Len(idx_lms))

lms_is_unique(offset_dict) ==
    ~ \E k \in 1..Len(offset_dict) : offset_dict[k][1] > 1

\* unpack_lms that returns the LMS positions in the order of the text
unpack_lms_text_order(idx_lms, offset_dict) == idx_lms

unpack_lms(idx_lms, offset_dict) ==
    Let([used \in {SelectSeq(offset_dict, LAMBDA e : e[1] # 0)} |->
        Collect(Len(used), LAMBDA k : At(idx_lms, used[k][2]))])

clear(src, zero) == Fill(Len(src), zero)

\* the scratch handed to a construction on a string of `size` symbols: the
\* first `size` entries of every vector
sub_scratch(layout, sc, size) ==
    [offset_dict |-> Prefix(sc.offset_dict, size),
     tmp_end_s   |-> Prefix(sc.tmp_end_s, size),
     sa          |-> Prefix(sc.sa, size),
     sa_init     |-> range_to_mut(layout, sc.sa_init, size)]

\* the caller's scratch after the construction on the prefix returned `sub`
merge_scratch(sc, sub) ==
    [offset_dict |-> WithPrefix(sc.offset_dict, sub.offset_dict),
     tmp_end_s   |-> WithPrefix(sc.tmp_end_s, sub.tmp_end_s),
     sa          |-> WithPrefix(sc.sa, sub.sa),
     sa_init     |-> WithPrefix(sc.sa_init, sub.sa_init)]

\* sa_init.clear(); clear(offset_dict)
cleared_scratch(sc) ==
    [sc EXCEPT !.sa_init = bit_clear(sc.sa_init),
               !.offset_dict = clear(sc.offset_dict, <<0, 0>>)]

RECURSIVE suffix_array(_, _, _)
RECURSIVE sort_lms(_, _, _, _, _)
RECURSIVE sort_lms_in_new_str(_, _, _, _)

\* returns the scratch after the call and the sorted LMS positions
sort_lms_in_new_str(layout, new_s_idx, sc, idx_lms) ==
    Let([view \in {sub_scratch(layout, sc, Len(idx_lms))} |->
    Let([sub \in {suffix_array(layout, new_s_idx, view)} |->
    Let([sc1 \in {merge_scratch(sc, sub)} |->
        [sc |-> sc1,
         sa_lms |-> Collect(Len(idx_lms), LAMBDA k : At(idx_lms, sc1.sa[k]))]])])])

sort_lms(layout, s_idx, sc, t, idx_lms) ==
    Let([dict \in {pack_lms(idx_lms, s_idx, sc.offset_dict)} |->
    Let([packed \in {[sc EXCEPT !.offset_dict = dict]} |->
        IF Len(idx_lms) = 1
        THEN [sc |-> packed, sa_lms |-> <<At(idx_lms, 0)>>]
        ELSE IF lms_is_unique(dict)
        THEN [sc |-> packed, sa_lms |-> unpack_lms(idx_lms, dict)]
        ELSE IF Len(idx_lms) <= LEN_NAIVE_SORT
        THEN [sc |-> packed, sa_lms |-> naive_sort(idx_lms, s_idx)]
        ELSE Let([cleared \in {[packed EXCEPT !.offset_dict = clear(dict, <<0, 0>>)]} |->
             Let([sorted \in {induced_sort(layout, s_idx, idx_lms, t, cleared)} |->
             Let([new \in {create_new_str(layout, s_idx, sorted.tmp_end_s, sorted.sa, t, idx_lms)} |->
             Let([sc1 \in {cleared_scratch([sorted EXCEPT !.tmp_end_s = new.alphabet])} |->
                 sort_lms_in_new_str(layout, new.new_s_idx, sc1, idx_lms)])])])])])])

suffix_array(layout, s_idx, sc) ==
    Let([bytes \in {ret_bytes(layout, Len(s_idx))} |->
    Let([t \in {calc_type(layout, s_idx, bytes)} |->
    Let([idx_lms \in {calc_lms(layout, t, Len(s_idx))} |->
    Let([sorted \in {sort_lms(layout, s_idx, sc, t, idx_lms)} |->
    Let([sc1 \in {cleared_scratch(sorted.sc)} |->
        induced_sort(layout, s_idx, sorted.sa_lms, t, sc1)])])])])])

\* a work item of the explicit stack
TState(kind, s_idx, idx_lms, t) ==
    [kind |-> kind, s_idx |-> s_idx, idx_lms |-> idx_lms, t |-> t]

\* One iteration of the loop of suffix_array_stack_inner: pop the top work
\* item of st.state_stack and run it on the scratch st.sc; st.res_lms is the
\* result handed from one item to the next
stack_Rec(layout, st, rest, s_idx) ==
    Let([view \in {sub_scratch(layout, st.sc, Len(s_idx))} |->
    Let([bytes \in {ret_bytes(layout, Len(s_idx))} |->
    Let([slice \in {calc_type(layout, s_idx, bytes)} |->
    Let([idx_lms \in {calc_lms(layout, slice, Len(s_idx))} |->
    Let([dict \in {pack_lms(idx_lms, s_idx, view.offset_dict)} |->
    Let([packed \in {[view EXCEPT !.offset_dict = dict]} |->
        IF Len(idx_lms) = 1
        THEN [state_stack |-> Append(rest, TState("End", s_idx, <<>>, slice)),
              res_lms |-> <<At(idx_lms, 0)>>,
              sc |-> merge_scratch(st.sc, packed)]
        ELSE IF lms_is_unique(dict)
        THEN [state_stack |-> Append(rest, TState("End", s_idx, <<>>, slice)),
              res_lms |-> unpack_lms(idx_lms, dict),
              sc |-> merge_scratch(st.sc, packed)]
        ELSE IF Len(idx_lms) <= LEN_NAIVE_SORT
        THEN [state_stack |-> Append(rest, TState("End", s_idx, <<>>, slice)),
              res_lms |-> naive_sort(idx_lms, s_idx),
              sc |-> merge_scratch(st.sc, packed)]
        ELSE Let([cleared \in {[packed EXCEPT !.offset_dict = clear(dict, <<0, 0>>)]} |->
             Let([sub_sorted \in {induced_sort(layout, s_idx, idx_lms, slice, cleared)} |->
             Let([sorted \in {merge_scratch(st.sc, sub_sorted)} |->
             Let([new \in {create_new_str(layout, s_idx, sorted.tmp_end_s,
                                Prefix(sorted.sa, Len(s_idx)), slice, idx_lms)} |->
             Let([named \in {[sorted EXCEPT !.tmp_end_s = new.alphabet]} |->
             Let([sub \in {cleared_scratch(sub_scratch(layout, named, Len(s_idx)))} |->
                 [state_stack |->
                      rest \o << TState("RecEnd", s_idx, idx_lms, slice),
                                 TState("Rec", new.new_s_idx, <<>>, <<>>) >>,
                  res_lms |-> st.res_lms,
                  sc |-> merge_scratch(named, sub)]])])])])])])])])])])])])

\* End and RecEnd that leave an End item for the same string on the stack
stack_End_again(layout, st, rest, s_idx, t, sa_lms) ==
    Let([cleared \in {cleared_scratch(sub_scratch(layout, st.sc, Len(s_idx)))} |->
    Let([sorted \in {induced_sort(layout, s_idx, sa_lms, t, cleared)} |->
        [state_stack |-> Append(rest, TState("End", s_idx, <<>>, t)),
         res_lms |-> st.res_lms,
         sc |-> merge_scratch(st.sc, sorted)]])])

\* End and RecEnd: the final induced sort of s_idx seeded with sa_lms
stack_End(layout, st, rest, s_idx, t, sa_lms) ==
    Let([cleared \in {cleared_scratch(sub_scratch(layout, st.sc, Len(s_idx)))} |->
    Let([sorted \in {induced_sort(layout, s_idx, sa_lms, t, cleared)} |->
        [state_stack |-> rest,
         res_lms |-> sorted.sa,
         sc |-> merge_scratch(st.sc, sorted)]])])

stack_step(layout, st) ==
    Let([state \in {st.state_stack[Len(st.state_stack)]} |->
    Let([rest \in {Prefix(st.state_stack, Len(st.state_stack) - 1)} |->
        IF state.kind = "Rec" THEN stack_Rec(layout, st, rest, state.s_idx)
        ELSE IF state.kind = "End"
        THEN stack_End(layout, st, rest, state.s_idx, state.t, st.res_lms)
        ELSE Let([sa_lms \in {Collect(Len(st.res_lms), LAMBDA k : At(state.idx_lms, st.res_lms[k]))} |->
                     stack_End(layout, st, rest, state.s_idx, state.t, sa_lms)])])])

RECURSIVE suffix_array_stack_inner(_, _)
suffix_array_stack_inner(layout, st) ==
    IF st.state_stack = <<>> THEN st
    ELSE Let([next \in {stack_step(layout, st)} |->
             suffix_array_stack_inner(layout, next)])

suffix_array_stack(layout, s_idx, sc) ==
    Let([bytes \in {ret_bytes(layout, Len(s_idx))} |->
    Let([t \in {calc_type(layout, s_idx, bytes)} |->
    Let([idx_lms \in {calc_lms(layout, t, Len(s_idx))} |->
    Let([dict \in {pack_lms(idx_lms, s_idx, sc.offset_dict)} |->
    Let([packed \in {[sc EXCEPT !.offset_dict = dict]} |->
        IF Len(idx_lms) = 1
        THEN Let([sc1 \in {cleared_scratch(packed)} |->
                 induced_sort(layout, s_idx, <<At(idx_lms, 0)>>, t, sc1)])
        ELSE IF lms_is_unique(dict)
        THEN Let([sa_lms \in {unpack_lms(idx_lms, dict)} |->
             Let([sc1 \in {cleared_scratch(packed)} |->
                 induced_sort(layout, s_idx, sa_lms, t, sc1)])])
        ELSE Let([cleared \in {[packed EXCEPT !.offset_dict = clear(dict, <<0, 0>>)]} |->
             Let([sorted \in {induced_sort(layout, s_idx, idx_lms, t, cleared)} |->
             Let([new \in {create_new_str(layout, s_idx, sorted.tmp_end_s, sorted.sa, t, idx_lms)} |->
             Let([sc1 \in {cleared_scratch([sorted EXCEPT !.tmp_end_s = new.alphabet])} |->
             Let([inner \in {suffix_array_stack_inner(layout,
                     [state_stack |-> <<TState("Rec", new.new_s_idx, <<>>, <<>>)>>,
                      res_lms |-> <<>>,
                      sc |-> sc1])} |->
             Let([sa_lms \in {Collect(Len(inner.res_lms), LAMBDA k : At(idx_lms, inner.res_lms[k]))} |->
             Let([sc2 \in {cleared_scratch(inner.sc)} |->
                 induced_sort(layout, s_idx, sa_lms, t, sc2)])])])])])])])])])])])])

\* ------------------------------------------------------------------------
\* SuffixArray: constructors
\* ------------------------------------------------------------------------

\* canonic_word that appends the sentinel to every word
canonic_word_always(word) == word \o <<0>>

canonic_word(word) ==
    IF word # <<>> /\ word[Len(word)] = 0 THEN word ELSE Append(word, 0)

\* the scratch a constructor allocates for the canonic word
new_scratch(layout, word) ==
    LET dict_len == Max2(Len(word), DICT_SIZE)
    IN  [offset_dict |-> Fill(dict_len, <<0, 0>>),
         tmp_end_s   |-> Fill(dict_len, 0),
         sa          |-> Fill(Len(word), 0),
         sa_init     |-> ret_bytes(layout, Len(word))]

SuffixArray_build(core, layout, word) ==
    IF word = <<>> THEN [word |-> <<>>, sa |-> <<>>]
    ELSE Let([w \in {canonic_word(word)} |->
         Let([sc \in {new_scratch(layout, w)} |->
             [word |-> w,
              sa |-> IF core = "rec" THEN suffix_array(layout, w, sc).sa
                     ELSE suffix_array_stack(layout, w, sc).sa]])])

SuffixArray_new(word) == SuffixArray_build("rec", "byte", word)

SuffixArray_new_stack(word) == SuffixArray_build("stack", "byte", word)

SuffixArray_new_compress(word) == SuffixArray_build("rec", "bit", word)

\* new_stack_compress whose suffix array comes out in reverse order
SuffixArray_new_stack_compress_reversed(word) ==
    Let([r \in {SuffixArray_build("stack", "bit", word)} |->
        [r EXCEPT !.sa = [i \in DOMAIN r.sa |-> r.sa[Len(r.sa) + 1 - i]]]])

SuffixArray_new_stack_compress(word) == SuffixArray_build("stack", "bit", word)

\* ------------------------------------------------------------------------
\* SuffixArray: lcp and the queries.  An Option is <<>> (None) or <<x>>.
\* ------------------------------------------------------------------------

None == <<>>

Some(x) == <<x>>

RECURSIVE binary_search_loop(_, _, _, _)
binary_search_loop(x, cmp(_), start, cnt) ==
    IF cnt <= 0 THEN start
    ELSE Let([mid \in {start + cnt \div 2} |->
             IF cmp(At(x, mid))
             THEN Let([left \in {cnt - (cnt \div 2 + 1)} |->
                      binary_search_loop(x, cmp, mid + 1, left)])
             ELSE Let([left \in {cnt \div 2} |->
                      binary_search_loop(x, cmp, start, left)])])

binary_search(x, cmp(_)) == binary_search_loop(x, cmp, 0, Len(x))

\* the prefix length carried to the next text position, never lowered
next_pref_len_keep(pref_len) == pref_len

\* the prefix length carried from a text position to the next one
next_pref_len(pref_len) == IF pref_len > 0 THEN pref_len - 1 ELSE pref_len

\* lcp().  A text position without a rank (sa_idx[x] = 0, which a suffix
\* array that is no permutation leaves) makes the code compute x - 1 below
\* zero and read sa and word unchecked with it: the call then either does not
\* return (.abort) or count_eq returns some count between its acc and the
\* length of the second slice.  The set of the outcomes of the call.
SuffixArray_lcp(self) ==
    LET n == Len(self.sa)
        store(st, x, pref_len) ==
            [lcp |-> Put(st.lcp, x, pref_len),
             pref_len |-> next_pref_len(pref_len),
             abort |-> FALSE]
    IN  Let([sa_idx \in {ForRange(LAMBDA v, i : Put(v, At(self.sa, i), i + 1), Fill(n, 0), 0, n)} |->
        LET one(st, k) ==
                LET x == At(sa_idx, k)
                    r == At(self.sa, x)
                IN  IF st.abort THEN {st}
                    ELSE IF x = n THEN {[st EXCEPT !.pref_len = 0]}
                    ELSE IF x = 0
                    THEN {[st EXCEPT !.abort = TRUE]}
                         \cup {store(st, x, c) :
                                  c \in st.pref_len..Max2(st.pref_len, Len(self.word) - r)}
                    ELSE {store(st, x, c) :
                             c \in {count_eq(self.word, At(self.sa, x - 1),
                                             self.word, r, st.pref_len)}}
            step(S, k) == UNION {one(st, k) : st \in S}
        IN  {[abort |-> st.abort, lcp |-> IF st.abort THEN <<>> ELSE st.lcp] :
                st \in ForRange(step, {[lcp |-> Fill(n, 0), pref_len |-> 0,
                                        abort |-> FALSE]}, 0, n)}])

\* find_pos whose end is one entry short
find_pos_short(self, find) ==
    IF find = <<>> THEN <<0, 0>>
    ELSE Let([start \in {binary_search(self.sa, LAMBDA idx : slice_cmp(self.word, idx, find, 0) < 0)} |->
         Let([rest \in {SubSeq(self.sa, start + 2, Len(self.sa))} |->
             <<start,
               start + binary_search(rest,
                           LAMBDA idx : /\ idx + Len(find) < Len(self.word)
                                        /\ SubSeq(self.word, idx + 1, idx + Len(find))
                                           = find)>>])])

find_pos(self, find) ==
    IF find = <<>> THEN <<0, 0>>
    ELSE Let([start \in {binary_search(self.sa, LAMBDA idx : slice_cmp(self.word, idx, find, 0) < 0)} |->
         Let([rest \in {SubSeq(self.sa, start + 1, Len(self.sa))} |->
             <<start,
               start + binary_search(rest,
                           LAMBDA idx : /\ idx + Len(find) < Len(self.word)
                                        /\ SubSeq(self.word, idx + 1, idx + Len(find))
                                           = find)>>])])

\* find that returns the last entry of the range of find_pos, not the first
SuffixArray_find_last(self, find) ==
    Let([pos \in {find_pos(self, find)} |->
        IF pos[1] >= pos[2] THEN None ELSE Some(At(self.sa, pos[2] - 1))])

SuffixArray_find(self, find) ==
    Let([pos \in {find_pos(self, find)} |->
        IF pos[1] >= pos[2] THEN None ELSE Some(At(self.sa, pos[1]))])

SuffixArray_find_all(self, find) ==
    Let([pos \in {find_pos(self, find)} |-> SubSeq(self.sa, pos[1] + 1, pos[2])])

\* the loop of find_pos_big at the entry sa[i - 1]
RECURSIVE find_pos_big_loop(_, _, _, _, _)
find_pos_big_loop(self, lcp, find, i, total_eq) ==
    IF i > Len(self.sa) THEN None
    ELSE Let([eq \in {count_eq(self.word, At(self.sa, i - 1), find, 0, total_eq)} |->
             IF eq = Len(find) THEN Some(i - 1)
             ELSE IF i < Len(lcp) /\ eq > At(lcp, i) THEN None
             ELSE Let([next \in {i + 1} |-> find_pos_big_loop(self, lcp, find, next, eq)])])

find_pos_big(self, lcp, find) ==
    IF find = <<>> THEN None
    ELSE Let([start \in {binary_search(self.sa, LAMBDA idx : At(self.word, idx) < At(find, 0))} |->
             find_pos_big_loop(self, lcp, find, start + 1, 0)])

\* find_big that returns the rank it found, not the position at that rank
SuffixArray_find_big_rank(self, lcp, find) == find_pos_big(self, lcp, find)

SuffixArray_find_big(self, lcp, find) ==
    Let([idx \in {find_pos_big(self, lcp, find)} |->
        IF idx = None THEN None ELSE Some(At(self.sa, idx[1]))])

\* the entries after `start` up to the first one below `len`: take_while
\* and count
count_while(lcp, start, len) ==
    Let([stop \in {{k \in (start + 1)..(Len(lcp) - 1) : ~ (len <= At(lcp, k))}} |->
        IF stop = {} THEN Max2(Len(lcp) - 1 - start, 0)
        ELSE (CHOOSE k \in stop : \A o \in stop : k <= o) - 1 - start])

\* find_all_big with the slice sa[start..end], its last entry left out
SuffixArray_find_all_big_open(self, lcp, find) ==
    Let([pos \in {find_pos_big(self, lcp, find)} |->
        IF pos = None THEN <<>>
        ELSE SubSeq(self.sa, pos[1] + 1, pos[1] + count_while(lcp, pos[1], Len(find)))])

SuffixArray_find_all_big(self, lcp, find) ==
    Let([pos \in {find_pos_big(self, lcp, find)} |->
        IF pos = None THEN <<>>
        ELSE SubSeq(self.sa, pos[1] + 1,
                    pos[1] + count_while(lcp, pos[1], Len(find)) + 1)])

\* usize::MAX is beyond the integers of TLC; no text of the model is as long
\* as the stand-in
usize_MAX == 2147483647

\* ------------------------------------------------------------------------
\* Suffix tree: the node table and Ukkonen's construction.  A NodeIdx is a
\* position in the node table; the children map of a node is a function from
\* the first byte of an edge to the child.  The operators that read the text
\* or compute a usize carry a flag .panic: an index past the end of the text,
\* an unwrap of None or a usize that leaves its range ends the call.
\* ------------------------------------------------------------------------

NodeIdx_root == 0

Node(link, parent, children, len, pos) ==
    [link |-> link, parent |-> parent, children |-> children, len |-> len, pos |-> pos]

\* the node table every constructor starts from
root_nodes == <<Node(Some(NodeIdx_root), NodeIdx_root, <<>>, 0, 0)>>

State(node_idx, edge_pos) == [node_idx |-> node_idx, edge_pos |-> edge_pos]

contains_key(children, ch) == ch \in DOMAIN children

try_to_node(nodes, current_node, transition) ==
    IF contains_key(At(nodes, current_node).children, transition)
    THEN Some(At(nodes, current_node).children[transition])
    ELSE None

is_root(node_idx) == node_idx = NodeIdx_root

is_end_edge(nodes, s) ==
    s.edge_pos = At(nodes, s.node_idx).pos + At(nodes, s.node_idx).len

\* update_edge that leaves the parent of the node as it was
update_edge_keep_parent(nodes, node_idx, parent, len, pos) ==
    Put(nodes, node_idx, [At(nodes, node_idx) EXCEPT !.len = len, !.pos = pos])

update_edge(nodes, node_idx, parent, len, pos) ==
    Put(nodes, node_idx,
        [At(nodes, node_idx) EXCEPT !.parent = parent, !.len = len, !.pos = pos])

set_child(nodes, node_idx, child_idx, ch) ==
    Put(nodes, node_idx,
        [At(nodes, node_idx) EXCEPT
            !.children = [k \in DOMAIN @ \cup {ch} |-> IF k = ch THEN child_idx ELSE @[k]]])

\* add_node that pushes a second, unused node after the new one
add_node_spare(nodes, parent, len, pos) ==
    Append(Append(nodes, Node(None, parent, <<>>, len, pos)),
           Node(None, parent, <<>>, len, pos))

\* the table after the push; the new node has the index Len(nodes)
add_node(nodes, parent, len, pos) ==
    Append(nodes, Node(None, parent, <<>>, len, pos))

\* split that reads the byte after word[split_word_pos] as well
split_lookahead(nodes, word, node_idx, split_word_pos, pref_len, suf_len) ==
    Let([node \in {At(nodes, node_idx)} |->
        IF split_word_pos + 1 >= Len(word) \/ node.pos >= Len(word)
        THEN [nodes |-> nodes, insert_node |-> Len(nodes), panic |-> TRUE]
        ELSE
    Let([insert_node \in {Len(nodes)} |->
    Let([n1 \in {add_node(nodes, node.parent, pref_len, node.pos)} |->
    Let([n2 \in {set_child(n1, insert_node, node_idx, At(word, split_word_pos))} |->
    Let([n3 \in {set_child(n2, node.parent, insert_node, At(word, node.pos))} |->
        [nodes |-> update_edge(n3, node_idx, insert_node, suf_len, split_word_pos),
         insert_node |-> insert_node,
         panic |-> FALSE]])])])])])

\* split: [nodes, insert_node, panic]
split(nodes, word, node_idx, split_word_pos, pref_len, suf_len) ==
    Let([node \in {At(nodes, node_idx)} |->
        IF split_word_pos >= Len(word) \/ node.pos >= Len(word)
        THEN [nodes |-> nodes, insert_node |-> Len(nodes), panic |-> TRUE]
        ELSE
    Let([insert_node \in {Len(nodes)} |->
    Let([n1 \in {add_node(nodes, node.parent, pref_len, node.pos)} |->
    Let([n2 \in {set_child(n1, insert_node, node_idx, At(word, split_word_pos))} |->
    Let([n3 \in {set_child(n2, node.parent, insert_node, At(word, node.pos))} |->
        [nodes |-> update_edge(n3, node_idx, insert_node, suf_len, split_word_pos),
         insert_node |-> insert_node,
         panic |-> FALSE]])])])])])

\* skip_walk: [link, word_pos, edge_len, panic]
RECURSIVE skip_walk(_, _, _, _, _)
skip_walk(nodes, word, link, word_pos, edge_len) ==
    IF word_pos >= Len(word)
    THEN [link |-> link, word_pos |-> word_pos, edge_len |-> edge_len, panic |-> TRUE]
    ELSE
    Let([to \in {try_to_node(nodes, link, At(word, word_pos))} |->
        IF to = None
        THEN [link |-> link, word_pos |-> word_pos, edge_len |-> edge_len, panic |-> TRUE]
        ELSE
    Let([node \in {At(nodes, to[1])} |->
        IF edge_len > node.len
        THEN Let([rest \in {edge_len - node.len} |->
             Let([next_pos \in {word_pos + node.len} |->
                 skip_walk(nodes, word, to[1], next_pos, rest)])])
        ELSE [link |-> to[1], word_pos |-> word_pos, edge_len |-> edge_len,
              panic |-> FALSE]])])

\* try_transfer_to on the table t.nodes and the active point t.s:
\* [kind, nodes, s, panic], kind the variant of Transfer
try_transfer_to(t, word, ch, is_online) ==
    Let([node \in {At(t.nodes, t.s.node_idx)} |->
        IF \/ is_online /\ node.len # usize_MAX /\ is_end_edge(t.nodes, t.s)
           \/ ~ is_online /\ is_end_edge(t.nodes, t.s)
        THEN IF contains_key(node.children, ch)
             THEN Let([to \in {node.children[ch]} |->
                      [kind |-> "Success", nodes |-> t.nodes,
                       s |-> State(to, At(t.nodes, to).pos + 1), panic |-> FALSE]])
             ELSE [kind |-> "StopInNode", nodes |-> t.nodes, s |-> t.s, panic |-> FALSE]
        ELSE IF t.s.edge_pos >= Len(word)
        THEN [kind |-> "Success", nodes |-> t.nodes, s |-> t.s, panic |-> TRUE]
        ELSE IF At(word, t.s.edge_pos) = ch
        THEN [kind |-> "Success", nodes |-> t.nodes,
              s |-> State(t.s.node_idx, t.s.edge_pos + 1), panic |-> FALSE]
        ELSE [kind |-> "StopInEdge", nodes |-> t.nodes, s |-> t.s, panic |-> FALSE]])

\* the new leaf of create_transfer below the node at the active point
add_leaf(t, word, ch, ch_pos, is_online) ==
    IF ~ is_online /\ ch_pos > Len(word)
    THEN [t EXCEPT !.panic = TRUE]
    ELSE
    Let([current_suf_len \in {IF is_online THEN usize_MAX ELSE Len(word) - ch_pos} |->
    Let([add \in {Len(t.nodes)} |->
    Let([n1 \in {add_node(t.nodes, t.s.node_idx, current_suf_len, ch_pos)} |->
        [kind |-> "StopInNode",
         nodes |-> set_child(n1, t.s.node_idx, add, ch),
         s |-> t.s,
         panic |-> FALSE]])])])

\* create_transfer on a Transfer that is not Success
create_transfer(t, word, ch, ch_pos, is_online) ==
    IF t.kind = "StopInNode" THEN add_leaf(t, word, ch, ch_pos, is_online)
    ELSE
    Let([node \in {At(t.nodes, t.s.node_idx)} |->
        IF \/ ~ (is_online /\ node.len = usize_MAX) /\ node.pos + node.len < t.s.edge_pos
           \/ is_online /\ t.s.edge_pos < node.pos
        THEN [t EXCEPT !.panic = TRUE]
        ELSE
    Let([suf_len \in {IF is_online /\ node.len = usize_MAX THEN usize_MAX
                      ELSE node.pos + node.len - t.s.edge_pos} |->
        IF ~ is_online /\ node.len < suf_len
        THEN [t EXCEPT !.panic = TRUE]
        ELSE
    Let([pref_len \in {IF is_online THEN t.s.edge_pos - node.pos
                       ELSE node.len - suf_len} |->
    Let([sp \in {split(t.nodes, word, t.s.node_idx, t.s.edge_pos, pref_len, suf_len)} |->
        IF sp.panic THEN [t EXCEPT !.panic = TRUE]
        ELSE
    Let([t1 \in {[t EXCEPT !.nodes = sp.nodes,
                           !.s = State(sp.insert_node, t.s.edge_pos)]} |->
        add_leaf(t1, word, ch, ch_pos, is_online)])])])])])

\* update_link that records the root as the link of every node
update_link_root(nodes, s, link) ==
    Let([n1 \in {Put(nodes, s.node_idx,
                      [At(nodes, s.node_idx) EXCEPT !.link = Some(NodeIdx_root)])} |->
        [nodes |-> n1,
         s |-> State(link, At(n1, link).pos + At(n1, link).len)]])

\* update_link: the node at the active point gets the link, the active
\* point moves to the end of the edge of the link
update_link(nodes, s, link) ==
    Let([n1 \in {Put(nodes, s.node_idx, [At(nodes, s.node_idx) EXCEPT !.link = Some(link)])} |->
        [nodes |-> n1,
         s |-> State(link, At(n1, link).pos + At(n1, link).len)]])

\* the skip/count of to_link for a node without a link, edge_len and word_pos
\* already shortened below the root: [nodes, s, panic]
to_link_walk(t, word, is_online, parent_idx, word_pos, edge_len) ==
    Let([up \in {At(t.nodes, parent_idx).link} |->
        IF up = None THEN [nodes |-> t.nodes, s |-> t.s, panic |-> TRUE]
        ELSE
    Let([w \in {skip_walk(t.nodes, word, up[1], word_pos, edge_len)} |->
        IF w.panic THEN [nodes |-> t.nodes, s |-> t.s, panic |-> TRUE]
        ELSE
    Let([target \in {At(t.nodes, w.link)} |->
        IF w.edge_len = target.len
        THEN Let([u \in {update_link(t.nodes, t.s, w.link)} |->
                 [nodes |-> u.nodes, s |-> u.s, panic |-> FALSE]])
        ELSE IF ~ (is_online /\ target.len = usize_MAX) /\ target.len < w.edge_len
        THEN [nodes |-> t.nodes, s |-> t.s, panic |-> TRUE]
        ELSE
    Let([suf_len \in {IF is_online /\ target.len = usize_MAX THEN usize_MAX
                      ELSE target.len - w.edge_len} |->
    Let([sp \in {split(t.nodes, word, w.link, w.word_pos + w.edge_len,
                       w.edge_len, suf_len)} |->
        IF sp.panic THEN [nodes |-> t.nodes, s |-> t.s, panic |-> TRUE]
        ELSE
    Let([u \in {update_link(sp.nodes, t.s, sp.insert_node)} |->
        [nodes |-> u.nodes, s |-> u.s, panic |-> FALSE]])])])])])])

\* to_link on a StopInNode: [again, nodes, s, panic], again the bool returned
to_link(t, word, is_online) ==
    IF is_root(t.s.node_idx)
    THEN [again |-> FALSE, nodes |-> t.nodes, s |-> t.s, panic |-> FALSE]
    ELSE
    Let([node \in {At(t.nodes, t.s.node_idx)} |->
        IF node.link # None
        THEN Let([link \in {node.link[1]} |->
                 [again |-> TRUE, nodes |-> t.nodes,
                  s |-> State(link, At(t.nodes, link).pos + At(t.nodes, link).len),
                  panic |-> FALSE]])
        ELSE IF node.parent = NodeIdx_root /\ node.len = 1
        THEN [again |-> TRUE,
              nodes |-> Put(t.nodes, t.s.node_idx, [node EXCEPT !.link = Some(NodeIdx_root)]),
              s |-> State(NodeIdx_root, 0),
              panic |-> FALSE]
        ELSE IF node.parent = NodeIdx_root /\ node.len = 0
        THEN [again |-> TRUE, nodes |-> t.nodes, s |-> t.s, panic |-> TRUE]
        ELSE
    Let([cut \in {IF node.parent = NodeIdx_root THEN 1 ELSE 0} |->
    Let([r \in {to_link_walk(t, word, is_online, node.parent,
                             node.pos + cut, node.len - cut)} |->
        [again |-> TRUE, nodes |-> r.nodes, s |-> r.s, panic |-> r.panic]])])])

\* while try_transfer_to(..).if_transfer_not_success(|x|
\* x.create_transfer(i).to_link()) {}: the phase of the byte ch at the text
\* position i, on t = [nodes, s, panic]
RECURSIVE transfer_loop(_, _, _, _, _)
transfer_loop(t, word, ch, i, is_online) ==
    IF t.panic THEN t
    ELSE
    Let([tr \in {try_transfer_to(t, word, ch, is_online)} |->
        IF tr.panic \/ tr.kind = "Success"
        THEN [nodes |-> tr.nodes, s |-> tr.s, panic |-> tr.panic]
        ELSE
    Let([made \in {create_transfer(tr, word, ch, i, is_online)} |->
        IF made.panic THEN [nodes |-> made.nodes, s |-> made.s, panic |-> TRUE]
        ELSE
    Let([l \in {to_link(made, word, is_online)} |->
    Let([next \in {[nodes |-> l.nodes, s |-> l.s, panic |-> l.panic]} |->
        IF l.again THEN transfer_loop(next, word, ch, i, is_online)
        ELSE next])])])])

\* the phases of the bytes word[from..to], one after the other
phases(t, word, from, to, is_online) ==
    ForRange(LAMBDA st, i : transfer_loop(st, word, At(word, i), i, is_online),
             t, from, to)

\* build_ukkonen without the phase of the terminal 0x00
build_ukkonen_no_terminal(word) ==
    Let([start \in {[nodes |-> root_nodes, s |-> State(NodeIdx_root, 0), panic |-> FALSE]} |->
        phases(start, word, 0, Len(word), FALSE)])

\* build_ukkonen: [nodes, s, panic]
build_ukkonen(word) ==
    Let([start \in {[nodes |-> root_nodes, s |-> State(NodeIdx_root, 0), panic |-> FALSE]} |->
    Let([body \in {phases(start, word, 0, Len(word), FALSE)} |->
        transfer_loop(body, word, 0, Len(word), FALSE)])])

\* SuffixTree::new: [word, nodes, panic]
SuffixTree_new(word) ==
    IF word = <<>> THEN [word |-> <<>>, nodes |-> root_nodes, panic |-> FALSE]
    ELSE Let([built \in {build_ukkonen(word)} |->
             [word |-> word, nodes |-> built.nodes, panic |-> built.panic]])

\* let end_edge_pos of find: an open leaf of the online tree ends where the
\* text ends
end_edge_pos(node, word, is_online) ==
    IF is_online /\ node.len = usize_MAX THEN Len(word)
    ELSE node.pos + node.len

\* AloneSuffixTree::find from the node node_idx on, `done` bytes of find
\* already matched: [res, panic]
RECURSIVE tree_find_loop(_, _, _, _, _, _)
tree_find_loop(nodes, word, find, is_online, node_idx, done) ==
    Let([node \in {At(nodes, node_idx)} |->
    Let([end \in {end_edge_pos(node, word, is_online)} |->
    Let([room \in {Min2(Max2(end - node.pos, 0), Len(find) - done)} |->
    Let([k \in {CHOOSE k \in 0..room :
                   /\ \A m \in 0..(k - 1) :
                         /\ node.pos + m < Len(word)
                         /\ At(word, node.pos + m) = At(find, done + m)
                   /\ \/ k = room
                      \/ node.pos + k >= Len(word)
                      \/ At(word, node.pos + k) # At(find, done + k)} |->
        IF k < room /\ node.pos + k >= Len(word)
        THEN [res |-> None, panic |-> TRUE]
        ELSE IF done + k = Len(find)
        THEN [res |-> IF node.pos + k >= Len(find) THEN Some(node.pos + k - Len(find))
                      ELSE None,
              panic |-> node.pos + k < Len(find)]
        ELSE IF node.pos + k # end
        THEN [res |-> None, panic |-> FALSE]
        ELSE
    Let([to \in {try_to_node(nodes, node_idx, At(find, done + k))} |->
        IF to = None THEN [res |-> None, panic |-> FALSE]
        ELSE Let([matched \in {done + k} |->
                 tree_find_loop(nodes, word, find, is_online, to[1], matched)])])])])])])

tree_find(nodes, word, find, is_online) ==
    tree_find_loop(nodes, word, find, is_online, NodeIdx_root, 0)

SuffixTree_find(self, find) == tree_find(self.nodes, self.word, find, FALSE)

\* ------------------------------------------------------------------------
\* OnlineSuffixTree: [word, nodes, build_info]
\* ------------------------------------------------------------------------

OnlineSuffixTree_new ==
    [word |-> <<>>, nodes |-> root_nodes, build_info |-> State(NodeIdx_root, 0)]

\* add that starts every call at the root instead of the saved build_info
OnlineSuffixTree_add_from_root(self, add_word) ==
    Let([word \in {self.word \o add_word} |->
    Let([start \in {[nodes |-> self.nodes, s |-> State(NodeIdx_root, 0), panic |-> FALSE]} |->
    Let([end \in {phases(start, word, Len(self.word), Len(word), TRUE)} |->
        [word |-> word, nodes |-> end.nodes, build_info |-> end.s,
         panic |-> end.panic]])])])

\* add: the builder after the call and whether the call panicked
OnlineSuffixTree_add(self, add_word) ==
    Let([word \in {self.word \o add_word} |->
    Let([start \in {[nodes |-> self.nodes, s |-> self.build_info, panic |-> FALSE]} |->
    Let([end \in {phases(start, word, Len(self.word), Len(word), TRUE)} |->
        [word |-> word, nodes |-> end.nodes, build_info |-> end.s,
         panic |-> end.panic]])])])

\* the length of an open leaf made concrete
close_leaf(node, i) == IF node.len = usize_MAX THEN [node EXCEPT !.len = i - node.pos] ELSE node

\* finish: the SuffixTree [word, nodes] and whether the call panicked
OnlineSuffixTree_finish(self) ==
    Let([start \in {[nodes |-> self.nodes, s |-> self.build_info, panic |-> FALSE]} |->
    Let([i \in {Len(self.word)} |->
    Let([end \in {transfer_loop(start, self.word, 0, i, TRUE)} |->
        [word |-> self.word,
         nodes |-> Collect(Len(end.nodes), LAMBDA k : close_leaf(end.nodes[k], i)),
         panic |-> end.panic
                   \/ \E k \in 1..Len(end.nodes) :
                          end.nodes[k].len = usize_MAX /\ end.nodes[k].pos > i]])])])

OnlineSuffixTree_find(self, find) == tree_find(self.nodes, self.word, find, TRUE)

\* ------------------------------------------------------------------------
\* The conversions between SuffixTree and SuffixArray
\* ------------------------------------------------------------------------

\* BTreeMap::iter: the entries <<key, child>> in the order of the keys
RECURSIVE iter(_)
iter(children) ==
    IF DOMAIN children = {} THEN <<>>
    ELSE Let([k \in {CHOOSE k \in DOMAIN children : \A o \in DOMAIN children : k <= o} |->
         Let([rest \in {[o \in DOMAIN children \ {k} |-> children[o]]} |->
             <<<<k, children[k]>>>> \o iter(rest)])])

\* a ChildrenIterator that forgets the string depth of its node
ChildrenIterator_no_len(it, len) == [it |-> it, len |-> 0]

ChildrenIterator(it, len) == [it |-> it, len |-> len]

\* one turn of `while let Some(x) = stack.last_mut()` of From<SuffixTree>:
\* t = [stack, sa, panic]; nothing changes once the stack is empty
from_tree_loop(nodes, t) ==
    IF t.panic \/ t.stack = <<>> THEN t
    ELSE
    Let([x \in {t.stack[Len(t.stack)]} |->
    Let([below \in {Prefix(t.stack, Len(t.stack) - 1)} |->
        IF x.it = <<>> THEN [t EXCEPT !.stack = below]
        ELSE
    Let([i \in {x.it[1][2]} |->
    Let([advanced \in {Append(below, ChildrenIterator(Tail(x.it), x.len))} |->
        IF i >= Len(nodes) THEN [t EXCEPT !.panic = TRUE]
        ELSE
    Let([node \in {At(nodes, i)} |->
        IF DOMAIN node.children = {}
        THEN IF node.pos < x.len THEN [t EXCEPT !.panic = TRUE]
             ELSE [stack |-> advanced, sa |-> Append(t.sa, node.pos - x.len),
                   panic |-> FALSE]
        ELSE [stack |-> Append(advanced,
                               ChildrenIterator(iter(node.children), x.len + node.len)),
              sa |-> t.sa,
              panic |-> FALSE]])])])])])

\* SuffixArray::from(SuffixTree): [word, sa, panic].  The walk over a tree of
\* n nodes takes fewer than 2 * n turns of the loop, one for every entry and
\* one for the end of every children map; a walk that has not emptied its
\* stack by then has come to a node twice and is counted as not returning.
SuffixArray_from(tree) ==
    Let([start \in {[stack |-> <<ChildrenIterator(
                                    iter(At(tree.nodes, NodeIdx_root).children), 0)>>,
                     sa |-> <<>>, panic |-> FALSE]} |->
    Let([out \in {ForRange(LAMBDA t, turn : from_tree_loop(tree.nodes, t),
                           start, 0, 2 * Len(tree.nodes))} |->
        [word |-> canonic_word(tree.word), sa |-> out.sa,
         panic |-> out.panic \/ out.stack # <<>>]])])

\* from_array_leaf that leaves total_len of the new leaf at zero
from_array_leaf_no_total(t, word, start) ==
    IF start >= Len(word) \/ Len(t.nodes) >= Len(t.total_len)
    THEN [t EXCEPT !.panic = TRUE]
    ELSE
    Let([len \in {Len(word) - start} |->
    Let([add_idx \in {Len(t.nodes)} |->
    Let([n1 \in {add_node(t.nodes, t.node_idx, len, start)} |->
        [nodes |-> set_child(n1, t.node_idx, add_idx, At(word, start)),
         total_len |-> t.total_len,
         node_idx |-> add_idx,
         panic |-> FALSE]])])])

\* a leaf that is pushed but not entered in the children of its parent
from_array_leaf_no_child(t, word, start) ==
    IF start >= Len(word) \/ Len(t.nodes) >= Len(t.total_len)
    THEN [t EXCEPT !.panic = TRUE]
    ELSE
    Let([len \in {Len(word) - start} |->
    Let([add_idx \in {Len(t.nodes)} |->
        [nodes |-> add_node(t.nodes, t.node_idx, len, start),
         total_len |-> Put(t.total_len, add_idx, At(t.total_len, t.node_idx) + len),
         node_idx |-> add_idx,
         panic |-> FALSE]])])

\* the leaf of the suffix at `start` below the node t.node_idx, which becomes
\* the current node: t = [nodes, total_len, node_idx, panic]
from_array_leaf(t, word, start) ==
    IF start >= Len(word) \/ Len(t.nodes) >= Len(t.total_len)
    THEN [t EXCEPT !.panic = TRUE]
    ELSE
    Let([len \in {Len(word) - start} |->
    Let([add_idx \in {Len(t.nodes)} |->
    Let([n1 \in {add_node(t.nodes, t.node_idx, len, start)} |->
        [nodes |-> set_child(n1, t.node_idx, add_idx, At(word, start)),
         total_len |-> Put(t.total_len, add_idx, At(t.total_len, t.node_idx) + len),
         node_idx |-> add_idx,
         panic |-> FALSE]])])])

\* the loop of From<SuffixArray> for one entry of the suffix array: climb
\* from the current node until the entry's leaf can be hung below it, or
\* below a node split off its edge
RECURSIVE from_array_loop(_, _, _, _)
from_array_loop(t, word, start, pref_len) ==
    Let([total \in {At(t.total_len, t.node_idx)} |->
    Let([node \in {At(t.nodes, t.node_idx)} |->
        IF pref_len = total \/ is_root(t.node_idx)
        THEN Let([at \in {start + pref_len} |-> from_array_leaf(t, word, at)])
        ELSE IF pref_len < total /\ pref_len > At(t.total_len, node.parent)
        THEN
    Let([at \in {start + pref_len} |->
    Let([suf_len \in {total - pref_len} |->
        IF at > Len(word) \/ node.len < suf_len \/ Len(t.nodes) >= Len(t.total_len)
        THEN [t EXCEPT !.panic = TRUE]
        ELSE
    Let([edge_pref_len \in {node.len - suf_len} |->
    Let([split_word_pos \in {node.pos + edge_pref_len} |->
    Let([sp \in {split(t.nodes, word, t.node_idx, split_word_pos, edge_pref_len, suf_len)} |->
        IF sp.panic THEN [t EXCEPT !.panic = TRUE]
        ELSE
    Let([t1 \in {[nodes |-> sp.nodes,
                  total_len |-> Put(t.total_len, sp.insert_node, total - suf_len),
                  node_idx |-> sp.insert_node,
                  panic |-> FALSE]} |->
        from_array_leaf(t1, word, at)])])])])])])
        ELSE Let([up \in {[t EXCEPT !.node_idx = node.parent]} |->
                 from_array_loop(up, word, start, pref_len)])])])

\* the conversion that adds the common prefix length to the start of the
\* suffix before the loop adds it again
SuffixTree_from_lcp_twice(array, lcp) ==
    Let([tree_size \in {2 * (Len(array.word) + 1)} |->
    Let([start \in {[nodes |-> root_nodes, total_len |-> Fill(tree_size, 0),
                     node_idx |-> NodeIdx_root, panic |-> FALSE]} |->
    Let([end \in {ForRange(LAMBDA t, k :
                               IF t.panic THEN t
                               ELSE from_array_loop(t, array.word,
                                                    At(array.sa, k) + At(lcp, k), At(lcp, k)),
                           start, 0, Min2(Len(array.sa), Len(lcp)))} |->
        [word |-> array.word, nodes |-> end.nodes, panic |-> end.panic]])])])

\* SuffixTree::from(SuffixArray) once array.lcp() has returned lcp:
\* [word, nodes, panic]
SuffixTree_from_lcp(array, lcp) ==
    Let([tree_size \in {2 * (Len(array.word) + 1)} |->
    Let([start \in {[nodes |-> root_nodes, total_len |-> Fill(tree_size, 0),
                     node_idx |-> NodeIdx_root, panic |-> FALSE]} |->
    Let([end \in {ForRange(LAMBDA t, k :
                               IF t.panic THEN t
                               ELSE from_array_loop(t, array.word, At(array.sa, k), At(lcp, k)),
                           start, 0, Min2(Len(array.sa), Len(lcp)))} |->
        [word |-> array.word, nodes |-> end.nodes, panic |-> end.panic]])])])

\* SuffixTree::from(SuffixArray): the set of the outcomes of the call, one for
\* each outcome of array.lcp()
SuffixTree_from(array) ==
    {IF out.abort THEN [word |-> array.word, nodes |-> root_nodes, panic |-> TRUE]
     ELSE SuffixTree_from_lcp(array, out.lcp) : out \in SuffixArray_lcp(array)}

\* ------------------------------------------------------------------------
\* SuffixTree::lcp
\* ------------------------------------------------------------------------

\* lcp that leaves prev_len as it is when an iterator ends
SuffixTree_lcp_no_pop(self) ==
    LET turn(t, k) ==
            IF t.panic \/ t.stack = <<>> THEN t
            ELSE
            Let([x \in {t.stack[Len(t.stack)]} |->
            Let([below \in {Prefix(t.stack, Len(t.stack) - 1)} |->
                IF x.it = <<>> THEN [t EXCEPT !.stack = below]
                ELSE
            Let([i \in {x.it[1][2]} |->
            Let([advanced \in {Append(below, [x EXCEPT !.it = Tail(x.it)])} |->
                IF i >= Len(self.nodes) THEN [t EXCEPT !.panic = TRUE]
                ELSE
            Let([node \in {At(self.nodes, i)} |->
                IF DOMAIN node.children = {}
                THEN [t EXCEPT !.stack = advanced,
                               !.lcp = Append(t.lcp, t.prev_len),
                               !.prev_len = x.len]
                ELSE [t EXCEPT !.stack = Append(advanced,
                                                [it |-> iter(node.children),
                                                 len |-> x.len + node.len,
                                                 node_len |-> node.len])]])])])])])
    IN  Let([start \in {[stack |-> <<[it |-> iter(At(self.nodes, NodeIdx_root).children),
                                      len |-> 0, node_len |-> 0]>>,
                         lcp |-> <<>>, prev_len |-> 0, panic |-> FALSE]} |->
        Let([out \in {ForRange(turn, start, 0, 2 * Len(self.nodes))} |->
            [lcp |-> out.lcp, panic |-> out.panic \/ out.stack # <<>>]])])

\* SuffixTree::lcp: [lcp, panic].  One turn of `while let Some(x) =
\* stack.last_mut()` on t = [stack, lcp, prev_len, panic]; the stack holds the
\* LCPChildrenIterator values [it, len, node_len].  prev_len -= x.node_len
\* below zero is an overflow of usize and counted as a panic.  As in
\* SuffixArray::from, the walk over n nodes takes fewer than 2 * n turns.
SuffixTree_lcp(self) ==
    LET turn(t, k) ==
            IF t.panic \/ t.stack = <<>> THEN t
            ELSE
            Let([x \in {t.stack[Len(t.stack)]} |->
            Let([below \in {Prefix(t.stack, Len(t.stack) - 1)} |->
                IF x.it = <<>>
                THEN IF t.prev_len < x.node_len THEN [t EXCEPT !.panic = TRUE]
                     ELSE [t EXCEPT !.stack = below,
                                    !.prev_len = t.prev_len - x.node_len]
                ELSE
            Let([i \in {x.it[1][2]} |->
            Let([advanced \in {Append(below, [x EXCEPT !.it = Tail(x.it)])} |->
                IF i >= Len(self.nodes) THEN [t EXCEPT !.panic = TRUE]
                ELSE
            Let([node \in {At(self.nodes, i)} |->
                IF DOMAIN node.children = {}
                THEN [t EXCEPT !.stack = advanced,
                               !.lcp = Append(t.lcp, t.prev_len),
                               !.prev_len = x.len]
                ELSE [t EXCEPT !.stack = Append(advanced,
                                                [it |-> iter(node.children),
                                                 len |-> x.len + node.len,
                                                 node_len |-> node.len])]])])])])])
    IN  Let([start \in {[stack |-> <<[it |-> iter(At(self.nodes, NodeIdx_root).children),
                                      len |-> 0, node_len |-> 0]>>,
                         lcp |-> <<>>, prev_len |-> 0, panic |-> FALSE]} |->
        Let([out \in {ForRange(turn, start, 0, 2 * Len(self.nodes))} |->
            [lcp |-> out.lcp, panic |-> out.panic \/ out.stack # <<>>]])])

\* ------------------------------------------------------------------------
\* The texts and patterns given to the program
\* ------------------------------------------------------------------------

\* all byte strings of length at most n over the bytes of B
RECURSIVE Strings(_, _)
Strings(B, n) ==
    IF n = 0 THEN {<<>>}
    ELSE Let([shorter \in {Strings(B, n - 1)} |->
             shorter \cup {Append(w, b) : w \in {v \in shorter : Len(v) = n - 1}, b \in B}])

\* no 0x00 except possibly as the last byte
Clean(W) == \A k \in 1..(Len(W) - 1) : W[k] # 0

Texts == Strings(0..MaxByte, MaxLen)

Patterns == Strings(0..MaxByte, MaxPat)

\* "mmiissiissiippii" of the tests, without and with its sentinel, and
\* 1 2 1 2 ... 1 2, which has more than LEN_NAIVE_SORT equal LMS substrings,
\* some of them on a byte border of the packed marker vector
LongTexts ==
    { <<109, 109, 105, 105, 115, 115, 105, 105, 115, 115, 105, 105, 112, 112, 105, 105>>,
      <<109, 109, 105, 105, 115, 115, 105, 105, 115, 115, 105, 105, 112, 112, 105, 105, 0>>,
      Collect(2 * (LEN_NAIVE_SORT + 2), LAMBDA k : IF k % 2 = 1 THEN 1 ELSE 2) }

CleanTexts == {W \in Texts : Clean(W)} \cup LongTexts

\* the texts given to the suffix tree: the longer ones without 0x00
TreeTexts == Texts \cup Strings(1..MaxByte, MaxTreeLen)

\* ------------------------------------------------------------------------
\* The program as a state machine
\* ------------------------------------------------------------------------

VARIABLES
    text,       \* the text W the constructors are given
    built,      \* built[c]: None, or Some(the SuffixArray constructor c returned)
    lcp,        \* None, or Some(the LCP that lcp() of built.new returned)
    last,       \* the last query on built.new: its name, pattern and result
    aborted,    \* a call did not return
    ost,        \* the OnlineSuffixTree
    adds,       \* the number of calls of add on ost
    fin,        \* None, or Some(the SuffixTree that finish() of ost returned)
    st,         \* None, or Some(the SuffixTree that SuffixTree::new returned)
    conv,       \* what the conversions returned, each None or Some(..):
                \* conv.tree = SuffixTree::from(built.new), conv.sa_new =
                \* SuffixArray::from(st), conv.sa_conv = SuffixArray::from(conv.tree)
    idx,        \* the index type T of SuffixArray<T>
    sm,         \* None, or Some(new_stack under way: the string, its types and
                \* LMS positions, the work items state_stack, res_lms, the
                \* scratch, and the suffix array once returned)
    mv          \* None, or Some(the marker vectors under test)

vars == <<text, built, lcp, last, aborted, ost, adds, fin, st, conv, idx, sm, mv>>

tree_vars == <<ost, adds, fin, st, conv>>

\* no call on a suffix tree yet
NoTree ==
    /\ ost = OnlineSuffixTree_new
    /\ adds = 0
    /\ fin = None
    /\ st = None
    /\ conv = [tree |-> None, sa_new |-> None, sa_conv |-> None]

NoQuery == [op |-> "none", pat |-> <<>>, res |-> <<>>]

NotBuilt == [new |-> None, new_stack |-> None, new_compress |-> None,
             new_stack_compress |-> None]

\* u8::MAX
u8_MAX == 255

\* a bound one too large, which lets a text of T::MAX bytes through
Max_max_inclusive(T) == (IF T = "u8" THEN u8_MAX ELSE usize_MAX) + 1

\* <T as Max>::max() of the index type
Max_max(T) == IF T = "u8" THEN u8_MAX ELSE usize_MAX

\* a constructor whose guard tests the length of the text with its sentinel
Construct_canonic_guard(c, constructed) ==
    /\ ~ aborted
    /\ IF Len(canonic_word(text)) < Max_max(idx)
       THEN /\ built' = [built EXCEPT ![c] = Some(constructed)]
            /\ UNCHANGED aborted
       ELSE /\ aborted' = TRUE
            /\ UNCHANGED built
    /\ UNCHANGED <<sm, mv, text, idx, lcp, last, tree_vars>>

\* texts of one repeated byte, with and without a final 0x00, at most
\* GuardSlack bytes shorter or longer than u8::MAX
GuardTexts ==
    Let([lens \in {(u8_MAX - GuardSlack)..(u8_MAX + GuardSlack)} |->
        {Fill(n, b) : n \in lens, b \in 1..MaxByte}
            \cup {Append(Fill(n - 1, b), 0) : n \in lens, b \in 1..MaxByte}])

\* a constructor c called on the text: the length guard, then the build
Construct(c, constructed) ==
    /\ ~ aborted
    /\ IF Len(text) < Max_max(idx)
       THEN /\ built' = [built EXCEPT ![c] = Some(constructed)]
            /\ UNCHANGED aborted
       ELSE /\ aborted' = TRUE
            /\ UNCHANGED built
    /\ UNCHANGED <<sm, mv, text, idx, lcp, last, tree_vars>>

New == Construct("new", SuffixArray_new(text))

NewStack == Construct("new_stack", SuffixArray_new_stack(text))

NewCompress == Construct("new_compress", SuffixArray_new_compress(text))

NewStackCompress ==
    Construct("new_stack_compress", SuffixArray_new_stack_compress(text))

Lcp ==
    /\ ~ aborted
    /\ built.new # None
    /\ \E out \in SuffixArray_lcp(built.new[1]) :
          IF out.abort
          THEN aborted' = TRUE /\ UNCHANGED lcp
          ELSE lcp' = Some(out.lcp) /\ UNCHANGED aborted
    /\ UNCHANGED <<sm, mv, text, idx, built, last, tree_vars>>

Query(op, find, res) ==
    /\ last' = [op |-> op, pat |-> find, res |-> res]
    /\ UNCHANGED <<sm, mv, text, idx, built, lcp, aborted, tree_vars>>

Find ==
    /\ ~ aborted
    /\ built.new # None
    /\ \E find \in Patterns : Query("find", find, SuffixArray_find(built.new[1], find))

FindAll ==
    /\ ~ aborted
    /\ built.new # None
    /\ \E find \in Patterns :
          Query("find_all", find, SuffixArray_find_all(built.new[1], find))

FindBig ==
    /\ ~ aborted
    /\ built.new # None
    /\ lcp # None
    /\ \E find \in Patterns :
          Query("find_big", find, SuffixArray_find_big(built.new[1], lcp[1], find))

FindAllBig ==
    /\ ~ aborted
    /\ built.new # None
    /\ lcp # None
    /\ \E find \in Patterns :
          Query("find_all_big", find,
                SuffixArray_find_all_big(built.new[1], lcp[1], find))

\* The constructors and lcp() on a text in the domain of the library
InitBuild ==
    /\ text \in CleanTexts
    /\ idx = "usize"
    /\ built = NotBuilt
    /\ lcp = None
    /\ last = NoQuery
    /\ aborted = FALSE
    /\ NoTree
    /\ sm = None
    /\ mv = None

NextBuild == New \/ NewStack \/ NewCompress \/ NewStackCompress \/ Lcp

SpecBuild == InitBuild /\ [][NextBuild]_vars

\* The queries on SuffixArray::new(W), W any byte string
InitQuery ==
    /\ text \in Texts
    /\ idx = "usize"
    /\ built = [NotBuilt EXCEPT !.new = Some(SuffixArray_new(text))]
    /\ lcp = None
    /\ last = NoQuery
    /\ aborted = FALSE
    /\ NoTree
    /\ sm = None
    /\ mv = None

NextQuery == Lcp \/ Find \/ FindAll \/ FindBig \/ FindAllBig

SpecQuery == InitQuery /\ [][NextQuery]_vars

\* the call of add that the model makes next: the text position of its
\* first byte
add_from(self) == Len(self.word)

\* OnlineSuffixTree::add of the next n bytes of the text
Add ==
    /\ ~ aborted
    /\ fin = None
    /\ adds < MaxAdds
    /\ \E n \in 0..(Len(text) - add_from(ost)) :
       \E add_word \in {SubSeq(text, add_from(ost) + 1, add_from(ost) + n)} :
       \E out \in {OnlineSuffixTree_add(ost, add_word)} :
          /\ IF out.panic
             THEN aborted' = TRUE /\ UNCHANGED <<ost, adds>>
             ELSE /\ ost' = [word |-> out.word, nodes |-> out.nodes,
                             build_info |-> out.build_info]
                  /\ adds' = adds + 1
                  /\ UNCHANGED aborted
          /\ last' = [op |-> "add", pat |-> add_word, res |-> None]
    /\ UNCHANGED <<sm, mv, text, idx, built, lcp, fin, st, conv>>

\* OnlineSuffixTree::finish
Finish ==
    /\ ~ aborted
    /\ fin = None
    /\ \E out \in {OnlineSuffixTree_finish(ost)} :
          IF out.panic
          THEN aborted' = TRUE /\ UNCHANGED fin
          ELSE fin' = Some([word |-> out.word, nodes |-> out.nodes]) /\ UNCHANGED aborted
    /\ UNCHANGED <<sm, mv, text, idx, built, lcp, last, ost, adds, st, conv>>

\* SuffixTree::new on the text
TreeNew ==
    /\ ~ aborted
    /\ st = None
    /\ \E out \in {SuffixTree_new(text)} :
          IF out.panic
          THEN aborted' = TRUE /\ UNCHANGED st
          ELSE st' = Some([word |-> out.word, nodes |-> out.nodes]) /\ UNCHANGED aborted
    /\ UNCHANGED <<sm, mv, text, idx, built, lcp, last, ost, adds, fin, conv>>

\* OnlineSuffixTree::find on the builder
OnlineFind ==
    /\ ~ aborted
    /\ fin = None
    /\ \E find \in Patterns :
       \E out \in {OnlineSuffixTree_find(ost, find)} :
          IF out.panic
          THEN aborted' = TRUE /\ UNCHANGED last
          ELSE /\ last' = [op |-> "online_find", pat |-> find, res |-> out.res]
               /\ UNCHANGED aborted
    /\ UNCHANGED <<sm, mv, text, idx, built, lcp, ost, adds, fin, st, conv>>

\* The online builder fed the text in chunks, and SuffixTree::new on the
\* whole text
InitTree ==
    /\ text \in TreeTexts
    /\ idx = "usize"
    /\ built = NotBuilt
    /\ lcp = None
    /\ last = NoQuery
    /\ aborted = FALSE
    /\ NoTree
    /\ sm = None
    /\ mv = None

NextTree == Add \/ Finish \/ TreeNew \/ OnlineFind

SpecTree == InitTree /\ [][NextTree]_vars

\* SuffixTree::from(SuffixArray::new(text))
TreeFromArray ==
    /\ ~ aborted
    /\ built.new # None
    /\ conv.tree = None
    /\ \E out \in SuffixTree_from(built.new[1]) :
          IF out.panic
          THEN aborted' = TRUE /\ UNCHANGED conv
          ELSE /\ conv' = [conv EXCEPT !.tree = Some([word |-> out.word, nodes |-> out.nodes])]
               /\ UNCHANGED aborted
    /\ UNCHANGED <<sm, mv, text, idx, built, lcp, last, ost, adds, fin, st>>

\* SuffixArray::from of the tree `tree`, the result kept in conv[to]
ArrayFrom(tree, to) ==
    /\ ~ aborted
    /\ tree # None
    /\ conv[to] = None
    /\ \E out \in {SuffixArray_from(tree[1])} :
          IF out.panic
          THEN aborted' = TRUE /\ UNCHANGED conv
          ELSE /\ conv' = [conv EXCEPT ![to] = Some([word |-> out.word, sa |-> out.sa])]
               /\ UNCHANGED aborted
    /\ UNCHANGED <<sm, mv, text, idx, built, lcp, last, ost, adds, fin, st>>

\* SuffixArray::from(SuffixTree::new(text))
ArrayFromNew == ArrayFrom(st, "sa_new")

\* SuffixArray::from(SuffixTree::from(SuffixArray::new(text)))
ArrayFromConv == ArrayFrom(conv.tree, "sa_conv")

\* find on a finished tree
TreeQuery(op, tree) ==
    /\ ~ aborted
    /\ tree # None
    /\ \E find \in Patterns :
       \E out \in {SuffixTree_find(tree[1], find)} :
          IF out.panic
          THEN aborted' = TRUE /\ UNCHANGED last
          ELSE /\ last' = [op |-> op, pat |-> find, res |-> out.res]
               /\ UNCHANGED aborted
    /\ UNCHANGED <<sm, mv, text, idx, built, lcp, ost, adds, fin, st, conv>>

\* SuffixTree::new(text).find
TreeFind == TreeQuery("tree_find", st)

\* SuffixTree::from(SuffixArray::new(text)).find
ConvFind == TreeQuery("conv_find", conv.tree)

\* The trees and arrays of one text, SuffixArray::new(text) given: both
\* constructions of the tree, the online builder, and the conversions
InitConv ==
    /\ text \in TreeTexts
    /\ idx = "usize"
    /\ built = [NotBuilt EXCEPT !.new = Some(SuffixArray_new(text))]
    /\ lcp = None
    /\ last = NoQuery
    /\ aborted = FALSE
    /\ NoTree
    /\ sm = None
    /\ mv = None

NextConv ==
    TreeNew \/ Add \/ Finish \/ TreeFromArray \/ ArrayFromNew \/ ArrayFromConv

SpecConv == InitConv /\ [][NextConv]_vars

\* find on the finished trees of one text
NextFind == TreeNew \/ TreeFromArray \/ TreeFind \/ ConvFind

SpecFind == InitConv /\ [][NextFind]_vars

\* The four constructors of SuffixArray<u8> on texts about u8::MAX bytes long
InitGuard ==
    /\ text \in GuardTexts
    /\ idx = "u8"
    /\ built = NotBuilt
    /\ lcp = None
    /\ last = NoQuery
    /\ aborted = FALSE
    /\ NoTree
    /\ sm = None
    /\ mv = None

NextGuard == New \/ NewStack \/ NewCompress \/ NewStackCompress

SpecGuard == InitGuard /\ [][NextGuard]_vars

\* SuffixTree::new(text).lcp()
TreeLcp ==
    /\ ~ aborted
    /\ st # None
    /\ \E out \in {SuffixTree_lcp(st[1])} :
          IF out.panic
          THEN aborted' = TRUE /\ UNCHANGED last
          ELSE /\ last' = [op |-> "tree_lcp", pat |-> <<>>, res |-> out.lcp]
               /\ UNCHANGED aborted
    /\ UNCHANGED <<sm, mv, text, idx, built, lcp, ost, adds, fin, st, conv>>

\* the lcp of the tree and of the array of one text
NextLcp == TreeNew \/ Lcp \/ TreeLcp

SpecLcp == InitConv /\ [][NextLcp]_vars

\* ------------------------------------------------------------------------
\* new_stack step by step: suffix_array_stack up to the call of
\* suffix_array_stack_inner, the turns of its loop, and the final induced sort
\* ------------------------------------------------------------------------

\* suffix_array_stack before the loop: the LMS positions are sorted at once,
\* or the reduced string is pushed as the single Rec item
StackStart ==
    /\ ~ aborted
    /\ sm # None
    /\ sm[1].phase = "start"
    /\ LET layout == sm[1].layout
           s_idx == sm[1].s_idx
           sc0 == sm[1].sc
       IN sm' = Some(
            Let([bytes \in {ret_bytes(layout, Len(s_idx))} |->
            Let([t \in {calc_type(layout, s_idx, bytes)} |->
            Let([idx_lms \in {calc_lms(layout, t, Len(s_idx))} |->
            Let([dict \in {pack_lms(idx_lms, s_idx, sc0.offset_dict)} |->
            Let([packed \in {[sc0 EXCEPT !.offset_dict = dict]} |->
                IF Len(idx_lms) = 1 \/ lms_is_unique(dict)
                THEN [sm[1] EXCEPT !.phase = "end", !.t = t, !.idx_lms = idx_lms,
                                   !.res_lms = IF Len(idx_lms) = 1 THEN <<At(idx_lms, 0)>>
                                               ELSE unpack_lms(idx_lms, dict),
                                   !.sc = packed]
                ELSE Let([cleared \in {[packed EXCEPT !.offset_dict = clear(dict, <<0, 0>>)]} |->
                     Let([sorted \in {induced_sort(layout, s_idx, idx_lms, t, cleared)} |->
                     Let([new \in {create_new_str(layout, s_idx, sorted.tmp_end_s, sorted.sa, t, idx_lms)} |->
                         [sm[1] EXCEPT !.phase = "inner", !.t = t, !.idx_lms = idx_lms,
                                       !.state_stack = <<TState("Rec", new.new_s_idx, <<>>, <<>>)>>,
                                       !.sc = cleared_scratch([sorted EXCEPT !.tmp_end_s = new.alphabet])]
                         ])])])])])])])]))
    /\ UNCHANGED <<mv, text, idx, built, lcp, last, aborted, tree_vars>>

\* one turn of the loop of suffix_array_stack_inner
StackStep ==
    /\ ~ aborted
    /\ sm # None
    /\ sm[1].phase = "inner"
    /\ sm[1].state_stack # <<>>
    /\ \E next \in {stack_step(sm[1].layout, [state_stack |-> sm[1].state_stack,
                                                res_lms |-> sm[1].res_lms,
                                                sc |-> sm[1].sc])} :
          sm' = Some([sm[1] EXCEPT !.state_stack = next.state_stack,
                                   !.res_lms = next.res_lms,
                                   !.sc = next.sc])
    /\ UNCHANGED <<mv, text, idx, built, lcp, last, aborted, tree_vars>>

\* suffix_array_stack_inner returns res_lms on the empty stack, and
\* suffix_array_stack runs the final induced sort (NTState::End with the
\* sorted LMS positions, NTState::RecEnd with the suffix array of the reduced
\* string)
StackReturn ==
    /\ ~ aborted
    /\ sm # None
    /\ \/ sm[1].phase = "end"
       \/ sm[1].phase = "inner" /\ sm[1].state_stack = <<>>
    /\ LET m == sm[1]
           sa_lms == IF m.phase = "end" THEN m.res_lms
                     ELSE Collect(Len(m.res_lms), LAMBDA k : At(m.idx_lms, m.res_lms[k]))
       IN sm' = Some(
            Let([sorted \in {induced_sort(m.layout, m.s_idx, sa_lms, m.t, cleared_scratch(m.sc))} |->
                [m EXCEPT !.phase = "returned", !.sc = sorted, !.sa = sorted.sa]]))
    /\ UNCHANGED <<mv, text, idx, built, lcp, last, aborted, tree_vars>>

\* new_stack and new_stack_compress on the canonic word of a text. The reduced
\* string of 1 2 1 3 ... 1 2 1 3 has LMS positions with equal names: a few of
\* them, which the loop sorts naively, or more than LEN_NAIVE_SORT
InitStack ==
    /\ text \in {W \in Strings(1..MaxByte, MaxStackLen) : W # <<>>}
                 \cup {Collect(4 * n, LAMBDA k : IF k % 2 = 1 THEN 1
                                                 ELSE IF k % 4 = 2 THEN 2 ELSE 3) :
                          n \in (2..MaxLen) \cup {LEN_NAIVE_SORT + 2}}
    /\ idx = "usize"
    /\ built = NotBuilt
    /\ lcp = None
    /\ last = NoQuery
    /\ aborted = FALSE
    /\ NoTree
    /\ mv = None
    /\ sm \in {Some([layout |-> layout, phase |-> "start", s_idx |-> canonic_word(text),
                     t |-> <<>>, idx_lms |-> <<>>, state_stack |-> <<>>,
                     res_lms |-> <<>>, sc |-> new_scratch(layout, canonic_word(text)),
                     sa |-> <<>>]) : layout \in {"byte", "bit"}}

NextStack == StackStart \/ StackStep \/ StackReturn

SpecStack == InitStack /\ [][NextStack]_vars

\* the loop is run to its end: nothing else is scheduled while a
\* construction runs
FairSpecStack == SpecStack /\ WF_vars(NextStack)

\* ------------------------------------------------------------------------
\* The marker vectors on their own: one vector of each flavour for the same
\* n positions, given the same set and clear through the same views
\* ------------------------------------------------------------------------

\* set_unchecked(i) through range_to_mut(to); to = n is the vector itself
MarkSet ==
    /\ mv # None
    /\ \E to \in 1..mv[1].n : \E i \in 0..(to - 1) :
          /\ Cardinality(mv[1].marked \cup {i}) <= MaxSet
          /\ mv' = Some([mv[1] EXCEPT
                       !.byte = WithPrefix(@, set_unchecked("byte", range_to_mut("byte", @, to), i)),
                       !.bit = WithPrefix(@, set_unchecked("bit", range_to_mut("bit", @, to), i)),
                       !.marked = @ \cup {i},
                       !.whole = @ /\ to = mv[1].n,
                       !.op = "set",
                       !.to = to])
    /\ UNCHANGED <<sm, text, idx, built, lcp, last, aborted, tree_vars>>

\* clear() through range_to_mut(to); to = n is the vector itself
MarkClear ==
    /\ mv # None
    /\ \E to \in 0..mv[1].n :
          mv' = Some([mv[1] EXCEPT
                    !.byte = WithPrefix(@, bit_clear(range_to_mut("byte", @, to))),
                    !.bit = WithPrefix(@, bit_clear(range_to_mut("bit", @, to))),
                    !.marked = @ \ (0..(to - 1)),
                    !.whole = @ /\ to = mv[1].n,
                    !.op = "clear",
                    !.to = to])
    /\ UNCHANGED <<sm, text, idx, built, lcp, last, aborted, tree_vars>>

\* Both vectors as ret_bytes gives them. marked: the positions set and not
\* cleared since; whole: no view shorter than the vector was used; op, to:
\* the last operation and the length of its view
InitMarks ==
    /\ text = <<>>
    /\ idx = "usize"
    /\ built = NotBuilt
    /\ lcp = None
    /\ last = NoQuery
    /\ aborted = FALSE
    /\ NoTree
    /\ sm = None
    /\ mv \in {Some([n |-> n, byte |-> ret_bytes("byte", n), bit |-> ret_bytes("bit", n),
                     marked |-> {}, whole |-> TRUE, op |-> "new", to |-> n]) :
                  n \in 1..MaxMarks}

SpecMarks == InitMarks /\ [][MarkSet \/ MarkClear]_vars

\* SuffixArray<u8>: new, lcp() and SuffixTree::from(SuffixArray) on the texts
\* about u8::MAX bytes long and on every short text, 0x00 inside included
InitWidth ==
    /\ text \in GuardTexts \cup Texts
    /\ idx = "u8"
    /\ built = NotBuilt
    /\ lcp = None
    /\ last = NoQuery
    /\ aborted = FALSE
    /\ NoTree
    /\ sm = None
    /\ mv = None

SpecWidth == InitWidth /\ [][New \/ Lcp \/ TreeFromArray]_vars

\* ------------------------------------------------------------------------
\* What the claims speak of
\* ------------------------------------------------------------------------

\* W': the text with the sentinel 0x00 appended when it does not end in it
Sentinelled(W) == IF W # <<>> /\ W[Len(W)] = 0 THEN W ELSE W \o <<0>>

NoZero(P) == \A j \in 1..Len(P) : P[j] # 0

\* the first k bytes of the suffixes V[a..] and V[b..] exist and agree
AgreeOn(V, a, b, k) ==
    \A j \in 1..k : a + j <= Len(V) /\ b + j <= Len(V) /\ V[a + j] = V[b + j]

\* V[a..] is byte-wise strictly smaller than V[b..]
SuffixLess(V, a, b) ==
    \E k \in 0..Len(V) :
        /\ AgreeOn(V, a, b, k)
        /\ \/ a + k = Len(V) /\ b + k < Len(V)
           \/ a + k < Len(V) /\ b + k < Len(V) /\ V[a + k + 1] < V[b + k + 1]

\* the length of the longest common prefix of V[a..] and V[b..]
CommonPrefix(V, a, b) ==
    CHOOSE k \in 0..Len(V) : AgreeOn(V, a, b, k) /\ ~ AgreeOn(V, a, b, k + 1)

\* P occurs in V at position k
Occurs(V, P, k) ==
    /\ k + Len(P) <= Len(V)
    /\ \A j \in 1..Len(P) : V[k + j] = P[j]

Occurrences(V, P) == {k \in 0..(Len(V) - 1) : Occurs(V, P, k)}

Range(v) == {v[k] : k \in 1..Len(v)}

\* the first entry of sa, in the order of sa, whose suffix of V begins with P
FirstEntry(sa, V, P) ==
    Let([hits \in {{i \in 1..Len(sa) : Occurs(V, P, sa[i])}} |->
        IF hits = {} THEN None
        ELSE Some(sa[CHOOSE i \in hits : \A o \in hits : i <= o])])

AllBuilt == \A c \in DOMAIN built : built[c] # None

\* C1: for a non-empty text without 0x00 before its last byte, the suffix
\* array of SuffixArray::new has the length of W', holds every position of W'
\* exactly once, lists the suffixes of W' in strictly increasing byte-wise
\* order, and begins with the position of the sentinel.
C1_SortedPermutation ==
    (built.new # None /\ text # <<>> /\ Clean(text)) =>
        LET SA == built.new[1].sa
            V == Sentinelled(text)
        IN  /\ Len(SA) = Len(V)
            /\ \A p \in 0..(Len(V) - 1) : Cardinality({i \in 1..Len(SA) : SA[i] = p}) = 1
            /\ \A i \in 1..(Len(SA) - 1) : SuffixLess(V, SA[i], SA[i + 1])
            /\ SA[1] = Len(V) - 1

\* SuffixArray::new has returned for a text with more than LEN_NAIVE_SORT LMS
\* positions, to which the sentinel had to be appended
C1_Witness ==
    /\ built.new # None
    /\ Len(text) > 2 * LEN_NAIVE_SORT
    /\ Clean(text)
    /\ text[Len(text)] # 0

\* C2: for a text without 0x00 before its last byte, lcp() is as long as the
\* suffix array, its first entry is 0, and every later entry i is the length
\* of the longest common prefix of the suffixes of W' at sa[i - 1] and sa[i].
C2_LcpCorrect ==
    (lcp # None /\ Clean(text)) =>
        LET SA == built.new[1].sa
            L == lcp[1]
            V == Sentinelled(text)
        IN  /\ Len(L) = Len(SA)
            /\ (Len(L) > 0 => L[1] = 0)
            /\ \A i \in 2..Len(L) : L[i] = CommonPrefix(V, SA[i - 1], SA[i])

\* lcp() has returned a vector with an entry above LEN_NAIVE_SORT
C2_Witness ==
    /\ lcp # None
    /\ Clean(text)
    /\ \E i \in 1..Len(lcp[1]) : lcp[1][i] > LEN_NAIVE_SORT

\* C3: on a text without 0x00 before its last byte, any two of new,
\* new_stack, new_compress and new_stack_compress return the same word and
\* the same suffix array.
C3_ConstructorsAgree ==
    Clean(text) =>
        \A c, d \in DOMAIN built :
            (built[c] # None /\ built[d] # None) => built[c] = built[d]

\* all four constructors have returned for a text with more than
\* LEN_NAIVE_SORT LMS positions
C3_Witness == AllBuilt /\ Clean(text) /\ Len(text) > 2 * LEN_NAIVE_SORT

\* C4 as stated: for every text and every pattern, find_all returns, as a
\* set, exactly the positions at which the pattern occurs in W'.
C4_FindAllExact_AnyInput ==
    last.op = "find_all" =>
        Range(last.res) = Occurrences(Sentinelled(text), last.pat)

\* C4: for a text without 0x00 before its last byte and a non-empty pattern
\* without 0x00, find_all returns, as a set, exactly the positions at which
\* the pattern occurs in W'.
C4_FindAllExact ==
    (last.op = "find_all" /\ Clean(text) /\ last.pat # <<>> /\ NoZero(last.pat)) =>
        Range(last.res) = Occurrences(Sentinelled(text), last.pat)

\* find_all has returned two or more positions of such a pattern
C4_Witness ==
    /\ last.op = "find_all"
    /\ Clean(text)
    /\ last.pat # <<>>
    /\ NoZero(last.pat)
    /\ Len(last.res) >= 2

\* C5 as stated: for every text and pattern, a position that find or
\* find_big returns is an occurrence of the pattern in W'.
C5_QuerySound_AnyInput ==
    (last.op \in {"find", "find_big"} /\ last.res # None) =>
        Occurs(Sentinelled(text), last.pat, last.res[1])

\* C5: for a text without 0x00 before its last byte and every pattern, a
\* position that find or find_big returns is an occurrence of the pattern in
\* W'.
C5_QuerySound ==
    (last.op \in {"find", "find_big"} /\ last.res # None /\ Clean(text)) =>
        Occurs(Sentinelled(text), last.pat, last.res[1])

\* find_big has returned a position for a pattern of two bytes
C5_Witness ==
    /\ last.op = "find_big"
    /\ last.res # None
    /\ Clean(text)
    /\ Len(last.pat) >= 2

\* C6 as stated: for every text and every non-empty pattern, find returns the
\* first entry of the suffix array whose suffix of W' begins with the
\* pattern, and None when there is no such entry.
C6_FindFirstEntry_AnyInput ==
    (last.op = "find" /\ last.pat # <<>>) =>
        last.res = FirstEntry(built.new[1].sa, Sentinelled(text), last.pat)

\* C6: for a text without 0x00 before its last byte and a non-empty pattern
\* without 0x00, find returns the first entry of the suffix array whose
\* suffix of W' begins with the pattern, and None when there is no such entry.
C6_FindFirstEntry ==
    (last.op = "find" /\ Clean(text) /\ last.pat # <<>> /\ NoZero(last.pat)) =>
        last.res = FirstEntry(built.new[1].sa, Sentinelled(text), last.pat)

\* find has returned the first of two or more entries that begin with the
\* pattern, and it is not the first entry of the suffix array after the
\* sentinel
C6_Witness ==
    /\ last.op = "find"
    /\ Clean(text)
    /\ last.pat # <<>>
    /\ NoZero(last.pat)
    /\ last.res # None
    /\ Cardinality(Occurrences(Sentinelled(text), last.pat)) >= 2
    /\ last.res[1] # built.new[1].sa[2]

\* C7 as stated: for every text and every pattern, find_big returns what find
\* returns and find_all_big returns the slice that find_all returns.
C7_BigAgrees_AnyInput ==
    /\ last.op = "find_big" => last.res = SuffixArray_find(built.new[1], last.pat)
    /\ last.op = "find_all_big" => last.res = SuffixArray_find_all(built.new[1], last.pat)

\* C7: for a text without 0x00 before its last byte and a pattern without
\* 0x00, find_big returns what find returns and find_all_big returns the
\* slice that find_all returns.
C7_BigAgrees ==
    (Clean(text) /\ NoZero(last.pat)) =>
        /\ last.op = "find_big" => last.res = SuffixArray_find(built.new[1], last.pat)
        /\ last.op = "find_all_big" =>
               last.res = SuffixArray_find_all(built.new[1], last.pat)

\* find_all_big has returned a slice of two or more entries
C7_Witness ==
    /\ last.op = "find_all_big"
    /\ Clean(text)
    /\ NoZero(last.pat)
    /\ Len(last.res) >= 2

\* the SuffixTree [word, nodes] a call returned
Returned(out) == Some([word |-> out.word, nodes |-> out.nodes])

\* the builder after new() and the one call add(W)
SingleAdd(W) ==
    Let([out \in {OnlineSuffixTree_add(OnlineSuffixTree_new, W)} |->
        [word |-> out.word, nodes |-> out.nodes, build_info |-> out.build_info]])

\* the smallest position at which P occurs in T, if there is one
FirstOccurrence(T, P) ==
    Let([occ \in {Occurrences(T, P)} |->
        IF occ = {} THEN None
        ELSE Some(CHOOSE k \in occ : \A o \in occ : k <= o)])

\* a node other than the root that has children
HasInnerNode(nodes) ==
    \E k \in 2..Len(nodes) : nodes[k].children # <<>>

\* C8 as stated: for every text W, the empty text included, new(); add(W); finish()
\* returns the tree that SuffixTree::new(W) returns: the same word and the
\* same node table (number of nodes, parent, children, pos, len and link of
\* every node).
C8_OnlineEqualsBatch ==
    (adds = 1 /\ ost.word = text /\ fin # None /\ st # None) => fin = st

\* both trees of the empty text have been returned: finish() has two nodes,
\* SuffixTree::new has the root alone
C8_EmptyTextDiverges ==
    /\ adds = 1 /\ text = <<>> /\ ost.word = text
    /\ fin # None /\ st # None
    /\ Len(fin[1].nodes) = 2
    /\ Len(st[1].nodes) = 1

\* C9: whatever chunks the text was added in, empty chunks included, the
\* builder (word, node table, active point) is the builder after the single
\* call add(W) on a new builder, and finish() returns the tree that finish()
\* after the single call returns.
C9_ChunkIndependent ==
    adds >= 1 =>
        Let([whole \in {SingleAdd(ost.word)} |->
            /\ ost = whole
            /\ fin # None => fin = Returned(OnlineSuffixTree_finish(whole))])

\* the text went in by MaxAdds calls, the last of them with an empty chunk;
\* the tree has inner nodes, the active point is below the root, and finish()
\* has returned
C9_Witness ==
    /\ adds = MaxAdds /\ last.op = "add" /\ last.pat = <<>>
    /\ ost.word = text /\ Len(text) >= MaxAdds
    /\ HasInnerNode(ost.nodes)
    /\ ost.build_info.node_idx # NodeIdx_root
    /\ fin # None

\* C10 as stated: before finish, with T the chunks added so far and T without 0x00,
\* find(P) of a non-empty P is Some(the smallest position at which P occurs
\* in T), and None when P does not occur in T.
C10_OnlineFindFirst ==
    (last.op = "online_find" /\ NoZero(ost.word) /\ last.pat # <<>>) =>
        last.res = FirstOccurrence(ost.word, last.pat)

\* find has returned a position at which the pattern occurs, and the pattern
\* occurs at a smaller position too
C10_LaterOccurrence ==
    /\ last.op = "online_find" /\ NoZero(ost.word) /\ last.pat # <<>>
    /\ last.res # None
    /\ Occurs(ost.word, last.pat, last.res[1])
    /\ \E k \in 0..(last.res[1] - 1) : Occurs(ost.word, last.pat, k)

\* C11: for a text without 0x00 before its last byte, the suffix array that
\* SuffixArray::from(SuffixTree::new(W)) reads off the leaves of the tree is
\* the suffix array of SuffixArray::new(W).
C11_TreeToArray ==
    (Clean(text) /\ conv.sa_new # None /\ built.new # None) =>
        conv.sa_new[1].sa = built.new[1].sa

\* both arrays of a longest text without a sentinel of its own, whose tree
\* has inner nodes
C11_Witness ==
    /\ Clean(text) /\ conv.sa_new # None /\ built.new # None
    /\ Len(text) = MaxTreeLen /\ NoZero(text)
    /\ HasInnerNode(st[1].nodes)

\* C12: for a text without 0x00 before its last byte, with or without the
\* final sentinel, SuffixArray::from(SuffixTree::from(SuffixArray::new(W)))
\* has the suffix array of SuffixArray::new(W).
C12_ArrayToTreeToArray ==
    (Clean(text) /\ conv.sa_conv # None /\ built.new # None) =>
        conv.sa_conv[1].sa = built.new[1].sa

\* the round trip has returned for a text that ends in its own sentinel, and
\* the tree in the middle has inner nodes
C12_Witness ==
    /\ Clean(text) /\ conv.sa_conv # None /\ built.new # None
    /\ Len(text) = MaxLen /\ text[Len(text)] = 0
    /\ HasInnerNode(conv.tree[1].nodes)

\* C13 as stated: SuffixTree::new(W).find(P), P non-empty and without 0x00,
\* is Some(the smallest position at which P begins in W), and None when P
\* does not occur in W.
C13_TreeFindFirst ==
    (last.op = "tree_find" /\ last.pat # <<>> /\ NoZero(last.pat)) =>
        last.res = FirstOccurrence(text, last.pat)

\* find on the tree of SuffixTree::new has returned a position at which the
\* pattern begins, and the pattern begins at a smaller position too
C13_LaterOccurrence ==
    /\ last.op = "tree_find" /\ last.pat # <<>> /\ NoZero(last.pat)
    /\ Clean(text)
    /\ last.res # None
    /\ Occurs(text, last.pat, last.res[1])
    /\ \E k \in 0..(last.res[1] - 1) : Occurs(text, last.pat, k)

\* C14 as stated: SuffixTree::from(SuffixArray::new(W)).find(P), for every
\* text W and every non-empty P without 0x00, is Some(the smallest position
\* at which P begins in W), and None when P does not occur in W.
C14_ConvFindFirst ==
    (last.op = "conv_find" /\ last.pat # <<>> /\ NoZero(last.pat)) =>
        last.res = FirstOccurrence(text, last.pat)

\* find on the converted tree has returned a position at which the pattern
\* begins, and the pattern begins at a smaller position too
C14_LaterOccurrence ==
    /\ last.op = "conv_find" /\ last.pat # <<>> /\ NoZero(last.pat)
    /\ Clean(text)
    /\ last.res # None
    /\ Occurs(text, last.pat, last.res[1])
    /\ \E k \in 0..(last.res[1] - 1) : Occurs(text, last.pat, k)

RECURSIVE path_label(_, _, _)
path_label(word, nodes, node_idx) ==
    IF is_root(node_idx) THEN <<>>
    ELSE path_label(word, nodes, At(nodes, node_idx).parent)
            \o SubSeq(word, At(nodes, node_idx).pos + 1,
                      At(nodes, node_idx).pos + At(nodes, node_idx).len)

\* C17: in the tree returned by SuffixTree::new or by finish(), for a text
\* with 0x00 as its last byte at most, the link of the root is the root and
\* every node other than the root that has children has a link to the node
\* whose path from the root spells the node's own path without its first byte.
C17_SuffixLinks ==
    \A t \in {st, fin} :
        (t # None /\ Clean(t[1].word)) =>
            LET nodes == t[1].nodes
                link(u) == At(nodes, u).link
            IN  /\ link(NodeIdx_root) = Some(NodeIdx_root)
                /\ \A u \in 1..(Len(nodes) - 1) :
                      DOMAIN At(nodes, u).children # {} =>
                          /\ link(u) # None
                          /\ link(u)[1] \in 0..(Len(nodes) - 1)
                          /\ path_label(t[1].word, nodes, link(u)[1])
                                = Tail(path_label(t[1].word, nodes, u))

\* both constructors have returned a tree in which an inner node links to
\* another inner node
C17_Witness ==
    /\ Clean(text) /\ st # None /\ fin # None /\ fin = st
    /\ \E u \in 1..(Len(st[1].nodes) - 1) :
          /\ DOMAIN At(st[1].nodes, u).children # {}
          /\ At(st[1].nodes, u).link # None
          /\ ~ is_root(At(st[1].nodes, u).link[1])

\* C18: for a non-empty text with 0x00 as its last byte at most, the tree of
\* SuffixTree::new or of finish() has |W|+1 leaves when W does not end in
\* 0x00 and |W| leaves when it does; the leaves stand for distinct suffix
\* starts, pos minus the string depth of the parent, and each spells its suffix.
C18_LeafCount ==
    \A t \in {st, fin} :
        (t # None /\ t[1].word # <<>> /\ Clean(t[1].word)) =>
            LET W == t[1].word
                nodes == t[1].nodes
                leaves == {k \in 1..(Len(nodes) - 1) : DOMAIN At(nodes, k).children = {}}
                start(k) == At(nodes, k).pos
                                - Len(path_label(W, nodes, At(nodes, k).parent))
                count == IF W[Len(W)] = 0 THEN Len(W) ELSE Len(W) + 1
            IN  /\ Cardinality(leaves) = count
                /\ \A j, k \in leaves : start(j) = start(k) => j = k
                /\ {start(k) : k \in leaves} = 0..(count - 1)
                /\ \A k \in leaves :
                      path_label(W, nodes, k) = SubSeq(W, start(k) + 1, Len(W))

\* SuffixTree::new and finish() have returned for a text of MaxTreeLen bytes
\* without 0x00, and the tree has inner nodes
C18_Witness ==
    /\ st # None /\ Len(st[1].word) = MaxTreeLen /\ NoZero(st[1].word)
    /\ HasInnerNode(st[1].nodes)
    /\ fin # None /\ fin[1].word = text

\* C19: the builder in every state, and every tree that SuffixTree::new,
\* finish() or SuffixTree::from(SuffixArray) has returned, has at most
\* 2 * (|word| + 1) nodes, word being the text stored with it.
C19_NodeCount ==
    /\ Len(ost.nodes) <= 2 * (Len(ost.word) + 1)
    /\ \A t \in {st, fin, conv.tree} :
          t # None => Len(t[1].nodes) <= 2 * (Len(t[1].word) + 1)

\* the three trees exist and the tree of SuffixTree::new has 2 * |W| + 1 nodes
C19_Witness ==
    /\ st # None /\ fin # None /\ conv.tree # None
    /\ Len(text) = MaxTreeLen
    /\ Len(st[1].nodes) = 2 * Len(text) + 1

\* C20: in every tree that SuffixTree::new, finish() or
\* SuffixTree::from(SuffixArray) has returned for a text with 0x00 as its last
\* byte at most, every node other than the root that has children has two
\* children or more.
C20_Branching ==
    \A t \in {st, fin, conv.tree} :
        (t # None /\ Clean(t[1].word)) =>
            \A k \in 1..(Len(t[1].nodes) - 1) :
                Cardinality(DOMAIN At(t[1].nodes, k).children) # 1

\* the three trees exist for a text without 0x00 and have inner nodes
C20_Witness ==
    /\ st # None /\ fin # None /\ conv.tree # None
    /\ NoZero(text) /\ fin[1].word = text
    /\ HasInnerNode(st[1].nodes) /\ HasInnerNode(fin[1].nodes)
    /\ HasInnerNode(conv.tree[1].nodes)

\* C21: for a text without 0x00 before its last byte, SuffixTree::new(W).lcp()
\* is as long as the suffix array of W', its first entry is 0, every later
\* entry i is the length of the longest common prefix of the suffixes of W'
\* at sa[i - 1] and sa[i], and it equals SuffixArray::new(W).lcp().
C21_TreeLcp ==
    (last.op = "tree_lcp" /\ Clean(text)) =>
        LET SA == built.new[1].sa
            L == last.res
            V == Sentinelled(text)
        IN  /\ Len(L) = Len(SA)
            /\ (Len(L) > 0 => L[1] = 0)
            /\ \A i \in 2..Len(L) : L[i] = CommonPrefix(V, SA[i - 1], SA[i])
            /\ (lcp # None => L = lcp[1])

\* both lcp calls have returned for a text of MaxTreeLen bytes to which the
\* sentinel had to be appended, and an entry is above 1
C21_Witness ==
    /\ last.op = "tree_lcp" /\ lcp # None
    /\ Len(text) = MaxTreeLen /\ NoZero(text)
    /\ \E i \in 1..Len(last.res) : last.res[i] > 1

\* C22 as stated: for W = "mmiissiissiippii\0", SuffixArray::new(W) has the
\* suffix array [16, 15, 14, 10, 6, 11, 7, 3, 13, 9, 5, 2, 1, 0, 12, 8, 4] and
\* the lcp [0, 1, 2, 2, 1, 4, 2, 0, 1, 3, 1, 0, 1, 3, 0, 4, 2].
C22_Mmiissiissiippii_AsStated ==
    (text = <<109, 109, 105, 105, 115, 115, 105, 105, 115, 115, 105, 105,
              112, 112, 105, 105, 0>>) =>
        /\ built.new # None =>
              built.new[1].sa
                  = <<16, 15, 14, 10, 6, 11, 7, 3, 13, 9, 5, 2, 1, 0, 12, 8, 4>>
        /\ lcp # None =>
              lcp[1] = <<0, 1, 2, 2, 1, 4, 2, 0, 1, 3, 1, 0, 1, 3, 0, 4, 2>>

\* C22 amended: for W = "mmiissiissiippii\0", SuffixArray::new(W) has the
\* suffix array [16, 15, 14, 10, 6, 2, 11, 7, 3, 1, 0, 13, 12, 9, 5, 8, 4] and
\* the lcp [0, 0, 1, 2, 2, 6, 1, 1, 5, 0, 1, 0, 1, 0, 3, 1, 4].
C22_Mmiissiissiippii ==
    (text = <<109, 109, 105, 105, 115, 115, 105, 105, 115, 115, 105, 105,
              112, 112, 105, 105, 0>>) =>
        /\ built.new # None =>
              built.new[1].sa
                  = <<16, 15, 14, 10, 6, 2, 11, 7, 3, 1, 0, 13, 12, 9, 5, 8, 4>>
        /\ lcp # None =>
              lcp[1] = <<0, 0, 1, 2, 2, 6, 1, 1, 5, 0, 1, 0, 1, 0, 3, 1, 4>>

\* new and lcp have returned for "mmiissiissiippii\0"
C22_Witness ==
    /\ text = <<109, 109, 105, 105, 115, 115, 105, 105, 115, 115, 105, 105,
                112, 112, 105, 105, 0>>
    /\ built.new # None
    /\ lcp # None

\* C23: the explicit-stack core terminates. A popped Rec pushes one End, or
\* one RecEnd and on top of it one Rec whose string is shorter, at most half
\* as long; End and RecEnd push nothing; and every run of
\* suffix_array_stack_inner reaches the empty stack and returns.
C23_StackTerminates ==
    /\ [][(sm # None /\ sm[1].phase = "inner" /\ sm[1].state_stack # <<>>) =>
            LET stack == sm[1].state_stack
                top == stack[Len(stack)]
                rest == SubSeq(stack, 1, Len(stack) - 1)
                after == sm'[1].state_stack
                pushed == SubSeq(after, Len(stack), Len(after))
            IN  /\ sm'[1].phase = "inner"
                /\ Len(after) >= Len(rest)
                /\ SubSeq(after, 1, Len(rest)) = rest
                /\ IF top.kind = "Rec"
                   THEN \/ /\ Len(pushed) = 1
                           /\ pushed[1].kind = "End"
                           /\ pushed[1].s_idx = top.s_idx
                        \/ /\ Len(pushed) = 2
                           /\ pushed[1].kind = "RecEnd"
                           /\ pushed[1].s_idx = top.s_idx
                           /\ pushed[2].kind = "Rec"
                           /\ Len(pushed[2].s_idx) < Len(top.s_idx)
                           /\ 2 * Len(pushed[2].s_idx) <= Len(top.s_idx)
                   ELSE pushed = <<>>]_vars
    /\ <>(sm # None /\ sm[1].phase = "returned")

\* a RecEnd item below the Rec item of its reduced string
C23_Witness ==
    /\ sm # None
    /\ sm[1].phase = "inner"
    /\ Len(sm[1].state_stack) = 2
    /\ sm[1].state_stack[1].kind = "RecEnd"
    /\ sm[1].state_stack[2].kind = "Rec"
    /\ Len(sm[1].state_stack[1].s_idx) > 2 * LEN_NAIVE_SORT

\* C24: the order of the stack protocol. When End(s, t) is about to be
\* popped, res_lms holds the LMS positions of s, each once, in the order of
\* their suffixes; when RecEnd(s, idx_lms, t) is about to be popped, res_lms
\* is a permutation of 0..|idx_lms|-1; after either pop res_lms is the suffix
\* array of s. The string of the bottom item stays the string of the first
\* Rec, so the value returned on the empty stack is its suffix array.
C24_StackProtocol ==
    /\ [](sm # None /\ sm[1].phase = "inner" /\ sm[1].state_stack # <<>> =>
            LET IsS(V, i) == i = Len(V) - 1 \/ SuffixLess(V, i, i + 1)
                LmsPos(V) == {i \in 1..(Len(V) - 1) : IsS(V, i) /\ ~ IsS(V, i - 1)}
                top == sm[1].state_stack[Len(sm[1].state_stack)]
                res_lms == sm[1].res_lms
            IN  /\ top.kind = "End" =>
                      /\ Range(res_lms) = LmsPos(top.s_idx)
                      /\ Len(res_lms) = Cardinality(LmsPos(top.s_idx))
                      /\ \A k \in 1..(Len(res_lms) - 1) :
                            SuffixLess(top.s_idx, res_lms[k], res_lms[k + 1])
                /\ top.kind = "RecEnd" =>
                      /\ Len(res_lms) = Len(top.idx_lms)
                      /\ Range(res_lms) = 0..(Len(top.idx_lms) - 1)
                      /\ Range(top.idx_lms) = LmsPos(top.s_idx))
    /\ [][(sm # None /\ sm[1].phase = "inner" /\ sm[1].state_stack # <<>>) =>
            LET IsSA(V, p) ==
                    /\ Len(p) = Len(V)
                    /\ Range(p) = 0..(Len(V) - 1)
                    /\ \A k \in 1..(Len(p) - 1) : SuffixLess(V, p[k], p[k + 1])
                stack == sm[1].state_stack
                top == stack[Len(stack)]
                after == sm'[1].state_stack
            IN  /\ top.kind # "Rec" => IsSA(top.s_idx, sm'[1].res_lms)
                /\ after # <<>> => after[1].s_idx = stack[1].s_idx
                /\ after = <<>> => IsSA(stack[1].s_idx, sm'[1].res_lms)]_vars

\* RecEnd is about to be popped: the suffix array of a reduced string with
\* more than LEN_NAIVE_SORT symbols has come back
C24_Witness ==
    /\ sm # None
    /\ sm[1].phase = "inner"
    /\ Len(sm[1].state_stack) = 1
    /\ sm[1].state_stack[1].kind = "RecEnd"
    /\ Len(sm[1].res_lms) > LEN_NAIVE_SORT

\* C29: the reduced string meets the conditions of the call it is handed to.
\* Whenever create_new_str has run on a string s that ends in its only
\* smallest symbol, the string r it returned (the string of the item pushed
\* for it) has one symbol per LMS position of s, in the order of the text;
\* two LMS positions have the same name exactly when their LMS substrings
\* agree in symbols and in types; every name is below |r|; the last symbol
\* of r is 0 and no other is; and 2|r| <= |s|.
C29_ReducedString ==
    (sm # None /\ sm[1].phase = "inner" /\ sm[1].state_stack # <<>>) =>
        LET stack == sm[1].state_stack
            Calls == {<<sm[1].s_idx, sm[1].idx_lms, stack[1].s_idx>>}
                     \cup {<<stack[k].s_idx, stack[k].idx_lms, stack[k + 1].s_idx>> :
                              k \in {j \in 1..(Len(stack) - 1) : stack[j].kind = "RecEnd"}}
            Meets(s, lms, r) ==
                Let([S \in {[i \in 0..(Len(s) - 1) |->
                                i = Len(s) - 1 \/ SuffixLess(s, i, i + 1)]} |->
                    LET IsLms(i) == i > 0 /\ S[i] /\ ~ S[i - 1]
                        end(k) == IF k < Len(lms) THEN lms[k + 1] ELSE lms[k]
                        symbols(k) == SubSeq(s, lms[k] + 1, end(k) + 1)
                        types(k) == [j \in 1..(end(k) - lms[k] + 1) |-> S[lms[k] + j - 1]]
                    IN  /\ \A k \in 1..Len(lms) : IsLms(lms[k])
                        /\ \A k \in 1..(Len(lms) - 1) : lms[k] < lms[k + 1]
                        /\ Len(lms) = Cardinality({i \in 0..(Len(s) - 1) : IsLms(i)})
                        /\ Len(r) = Len(lms)
                        /\ \A a, b \in 1..Len(lms) :
                              r[a] = r[b] <=> (symbols(a) = symbols(b) /\ types(a) = types(b))
                        /\ \A a \in 1..Len(r) : r[a] \in 0..(Len(r) - 1)
                        /\ r[Len(r)] = 0
                        /\ \A a \in 1..(Len(r) - 1) : r[a] # 0
                        /\ 2 * Len(r) <= Len(s)])
        IN  \A c \in Calls : Meets(c[1], c[2], c[3])

\* create_new_str has run in suffix_array_stack and in the loop, and has given
\* the same name to several LMS positions
C29_Witness ==
    /\ sm # None
    /\ sm[1].phase = "inner"
    /\ Len(sm[1].state_stack) = 2
    /\ sm[1].state_stack[1].kind = "RecEnd"
    /\ sm[1].state_stack[2].kind = "Rec"
    /\ \E a, b \in 1..Len(sm[1].state_stack[2].s_idx) :
          a # b /\ sm[1].state_stack[2].s_idx[a] = sm[1].state_stack[2].s_idx[b]
    /\ \E a, b \in 1..Len(sm[1].state_stack[1].s_idx) :
          sm[1].state_stack[1].s_idx[a] # sm[1].state_stack[1].s_idx[b]

\* C25: both flavours of the marker vector mean the same. After any set(i)
\* and clear() on vectors made for n positions, get(i) of either flavour is 1
\* exactly for the positions set since the last clear(), and the packed
\* flavour keeps position i in bit i mod 8, least significant first, of byte
\* i div 8, with no other bit set.
C25_MarkersAgree ==
    (mv # None /\ mv[1].whole) =>
        LET m == mv[1]
            bit_of(i) == (m.bit[(i \div 8) + 1] \div (2 ^ (i % 8))) % 2
        IN  /\ Len(m.byte) = m.n
            /\ Len(m.bit) = (m.n + 7) \div 8
            /\ \A i \in 0..(m.n - 1) :
                  /\ get_unchecked("byte", m.byte, i) = (IF i \in m.marked THEN 1 ELSE 0)
                  /\ get_unchecked("bit", m.bit, i) = get_unchecked("byte", m.byte, i)
                  /\ bit_of(i) = (IF i \in m.marked THEN 1 ELSE 0)
            /\ \A i \in m.n..(8 * Len(m.bit) - 1) : bit_of(i) = 0
            /\ \A b \in 1..Len(m.bit) : m.bit[b] \in 0..255

\* positions in both bytes of the packed vector are set, after a clear()
C25_Witness ==
    /\ mv # None
    /\ mv[1].whole
    /\ mv[1].n = MaxMarks
    /\ mv[1].op = "set"
    /\ {1, 8} \subseteq mv[1].marked
    /\ 0 \notin mv[1].marked

\* C26 as stated: set and clear through range_to_mut(k) leave every position
\* from k on, of either flavour, as it was
C26_ViewConfined_AsStated ==
    [][(mv # None /\ mv' # mv) =>
          \A pos \in mv'[1].to..(mv[1].n - 1) :
              /\ get_unchecked("byte", mv'[1].byte, pos) = get_unchecked("byte", mv[1].byte, pos)
              /\ get_unchecked("bit", mv'[1].bit, pos) = get_unchecked("bit", mv[1].bit, pos)]_vars

\* C26: a prefix view is confined to its bytes. set through range_to_mut(k)
\* changes one position below k and no other, in either flavour. clear() through the view
\* of the byte-per-position vector changes no position from k on; through the
\* view of the packed vector it zeroes every position of the bytes the view
\* covers, positions 0..8*ceil(k/8)-1, and changes no position beyond them.
C26_ViewConfinedToBytes ==
    [][(mv # None /\ mv' # mv) =>
          LET k == mv'[1].to
              border == 8 * ((k + 7) \div 8)
              n == mv[1].n
          IN  /\ \A pos \in k..(n - 1) :
                    get_unchecked("byte", mv'[1].byte, pos) = get_unchecked("byte", mv[1].byte, pos)
              /\ \A pos \in border..(n - 1) :
                    get_unchecked("bit", mv'[1].bit, pos) = get_unchecked("bit", mv[1].bit, pos)
              /\ mv'[1].op = "set" =>
                    \E i \in 0..(k - 1) : \A pos \in (0..(n - 1)) \ {i} :
                        /\ get_unchecked("byte", mv'[1].byte, pos) = get_unchecked("byte", mv[1].byte, pos)
                        /\ get_unchecked("bit", mv'[1].bit, pos) = get_unchecked("bit", mv[1].bit, pos)
              /\ mv'[1].op = "clear" =>
                    /\ \A pos \in 0..(k - 1) : get_unchecked("byte", mv'[1].byte, pos) = 0
                    /\ \A pos \in 0..(Min2(border, n) - 1) :
                          get_unchecked("bit", mv'[1].bit, pos) = 0]_vars

\* clear() through a view of the packed vector has zeroed a position beyond
\* the view, in its last byte, which the byte-per-position vector still
\* holds, and has kept a position of the next byte
C26_Witness ==
    /\ mv # None
    /\ mv[1].op = "clear"
    /\ mv[1].n = MaxMarks
    /\ mv[1].to < 8
    /\ {mv[1].to, 8} \subseteq mv[1].marked
    /\ get_unchecked("byte", mv[1].byte, mv[1].to) = 1
    /\ get_unchecked("bit", mv[1].bit, mv[1].to) = 0
    /\ get_unchecked("bit", mv[1].bit, 8) = 1

\* C27: no read of the text out of range while Ukkonen's construction runs.
\* For every text without 0x00 before its last byte, no phase of
\* SuffixTree::new, of add or of finish, the phase of the terminal 0x00 at
\* i = |W| included, reads the text at |W| or beyond in try_transfer_to,
\* skip_walk or split: each of these reads would end the call, and no call ends so.
C27_TextReadsInRange ==
    Clean(text) => ~ aborted

\* SuffixTree::new and add, finish have returned for a text of MaxLen bytes
\* that ends in its own 0x00, with edges split, and for one of MaxTreeLen bytes
\* the builder holds the whole text
C27_Witness ==
    /\ Clean(text) /\ ~ aborted
    /\ st # None /\ HasInnerNode(st[1].nodes)
    /\ fin # None /\ fin[1].word = text
    /\ Len(text) = MaxLen /\ text[Len(text)] = 0

\* C28 as stated, for every text: parent and children agree in every tree. In the builder after every
\* add, in every tree that SuffixTree::new, finish() or
\* SuffixTree::from(SuffixArray) has returned, and in such a tree after split
\* of any of its edges at any place: the children map of the parent of every
\* node c but the root has exactly one entry for c, under the first byte of
\* the edge of c (W[pos(c)], or 0 for the leaf of the terminal phase, whose
\* pos is |W|); every entry of the children map of a node v leads to a node
\* whose parent is v; the root is its own parent and its len is 0.
C28_ParentChild_AnyInput ==
    LET Consistent(W, nodes) ==
            /\ At(nodes, NodeIdx_root).parent = NodeIdx_root
            /\ At(nodes, NodeIdx_root).len = 0
            /\ \A c \in 1..(Len(nodes) - 1) :
                  LET node == At(nodes, c)
                      up == At(nodes, node.parent).children
                      key == IF node.pos = Len(W) THEN 0 ELSE At(W, node.pos)
                  IN  /\ node.parent \in 0..(Len(nodes) - 1)
                      /\ node.pos <= Len(W)
                      /\ {b \in DOMAIN up : up[b] = c} = {key}
            /\ \A v \in 0..(Len(nodes) - 1) :
                  \A b \in DOMAIN At(nodes, v).children :
                      LET c == At(nodes, v).children[b]
                      IN  c \in 1..(Len(nodes) - 1) /\ At(nodes, c).parent = v
        AfterSplit(W, nodes) ==
            \A u \in 1..(Len(nodes) - 1) :
                \A pref_len \in 1..(At(nodes, u).len - 1) :
                    At(nodes, u).pos + pref_len < Len(W) =>
                        LET sp == split(nodes, W, u, At(nodes, u).pos + pref_len,
                                        pref_len, At(nodes, u).len - pref_len)
                        IN  ~ sp.panic /\ Consistent(W, sp.nodes)
    IN  /\ Consistent(ost.word, ost.nodes)
        /\ \A t \in {st, fin, conv.tree} :
              t # None => Consistent(t[1].word, t[1].nodes) /\ AfterSplit(t[1].word, t[1].nodes)

\* C28: parent and children agree in every tree. In the builder after every
\* add, in every tree that SuffixTree::new, finish() or
\* SuffixTree::from(SuffixArray) has returned, and in such a tree after split
\* of any of its edges at any place: the children map of the parent of every
\* node c but the root has exactly one entry for c, under the first byte of
\* the edge of c (W[pos(c)], or 0 for the leaf of the terminal phase, whose
\* pos is |W|); every entry of the children map of a node v leads to a node
\* whose parent is v; the root is its own parent and its len is 0.
C28_ParentChild ==
    LET Consistent(W, nodes) ==
            /\ At(nodes, NodeIdx_root).parent = NodeIdx_root
            /\ At(nodes, NodeIdx_root).len = 0
            /\ \A c \in 1..(Len(nodes) - 1) :
                  LET node == At(nodes, c)
                      up == At(nodes, node.parent).children
                      key == IF node.pos = Len(W) THEN 0 ELSE At(W, node.pos)
                  IN  /\ node.parent \in 0..(Len(nodes) - 1)
                      /\ node.pos <= Len(W)
                      /\ {b \in DOMAIN up : up[b] = c} = {key}
            /\ \A v \in 0..(Len(nodes) - 1) :
                  \A b \in DOMAIN At(nodes, v).children :
                      LET c == At(nodes, v).children[b]
                      IN  c \in 1..(Len(nodes) - 1) /\ At(nodes, c).parent = v
        AfterSplit(W, nodes) ==
            \A u \in 1..(Len(nodes) - 1) :
                \A pref_len \in 1..(At(nodes, u).len - 1) :
                    At(nodes, u).pos + pref_len < Len(W) =>
                        LET sp == split(nodes, W, u, At(nodes, u).pos + pref_len,
                                        pref_len, At(nodes, u).len - pref_len)
                        IN  ~ sp.panic /\ Consistent(W, sp.nodes)
    IN  /\ Consistent(ost.word, ost.nodes)
        /\ \A t \in {st, fin} \cup (IF Clean(text) THEN {conv.tree} ELSE {}) :
              t # None => Consistent(t[1].word, t[1].nodes) /\ AfterSplit(t[1].word, t[1].nodes)

\* every kind of tree has been built for a text of MaxTreeLen bytes, with
\* inner nodes, and the builder is in the middle of the text
C28_Witness ==
    /\ Len(text) = MaxTreeLen
    /\ st # None /\ HasInnerNode(st[1].nodes)
    /\ conv.tree # None /\ HasInnerNode(conv.tree[1].nodes)
    /\ adds > 1 /\ Len(ost.word) < Len(text) /\ HasInnerNode(ost.nodes)
    /\ \E u \in 1..(Len(st[1].nodes) - 1) : At(st[1].nodes, u).len > 1

====
